---- MODULE Spec2Model ----
(***************************************************************************)
(* Model of the signal-fusion and indicator-evaluation core of the         *)
(* financial analysis backend (src/backend).                               *)
(*                                                                         *)
(* Floating point numbers are modelled as exact rationals <<n, d>> in      *)
(* lowest terms with d > 0; rounding of IEEE doubles is not modelled.      *)
(***************************************************************************)
EXTENDS Integers, Sequences, FiniteSets, TLC

VARIABLES
    indicators,     \* _combine_signals: the list of IndicatorResult handed in
    combined,       \* _combine_signals: <<>> before the call, <<returned triple>> after
    ti,             \* the TechnicalIndicators object (its constructor parameters)
    close_prices,   \* the close price array handed to calculate_ema/_macd/_rsi
    ema_out,        \* calculate_ema: <<>> before the call, <<returned pair>> after
    macd_out,       \* calculate_macd: likewise
    rsi_out,        \* calculate_rsi: likewise
    analysis_out,   \* analyze_symbol: <<>> before the call, <<returned value>> after
    symbols,        \* process_semantic_analysis: the list of symbols asked for
    news,           \* the news source: what a fetch returns for each symbol
    semantic_out,   \* process_semantic_analysis: <<>> before the call, <<outcome>> after
    verdict_pc,     \* get_complete_verdict: the statement reached
    price_source,   \* the price source: what the fetch of the requested symbol gives
    narrator,       \* the narrative generator: what the chat completion call gives
    technical_results,  \* get_complete_verdict: the record of run_technical_analysis
    semantic_results,   \* get_complete_verdict: the record of run_semantic_analysis
    verdict,        \* get_complete_verdict: <<>> before it returns, <<response>> after
    documents,      \* calculate_sentiment_scores: the list of results handed in
    scores_out,     \* calculate_sentiment_scores: <<>> before the call, <<aggregate>> after
    semantic_df,    \* clean_data_for_downstream: the rows of the DataFrame handed in
    cleaned_out,    \* clean_data_for_downstream: <<>> before the call, <<rows>> after
    ctor_args,      \* TechnicalIndicators(...): the arguments of the constructor call
    ctor_out,       \* TechnicalIndicators(...): <<>> before the call, <<outcome>> after
    all_texts,      \* analyze_sentiment_batch: the texts handed in
    chunk_size,     \* analyze_sentiment_batch: its batch_size argument
    batch_out,      \* analyze_sentiment_batch: <<>> before the call, <<results>> after
    historical_df,  \* _clean_historical_data: the rows of the DataFrame handed in
    history_out,    \* _clean_historical_data: <<>> before the call, <<rows>> after
    fetcher,        \* get_historical_data: its loop (symbols, sources, position, frames)
    historical_data,    \* run_technical_analysis: its local, None until fetched
    fetched_news,   \* run_semantic_analysis: the fetched news, None until fetched
    responses       \* the verdicts returned so far, each with the request it answers

combineVars == <<indicators, combined>>

indicatorVars == <<ti, close_prices, ema_out, macd_out, rsi_out, analysis_out>>

semanticVars == <<symbols, news, semantic_out>>

verdictVars == <<verdict_pc, price_source, narrator, technical_results,
                 semantic_results, verdict>>

scoreVars == <<documents, scores_out>>

cleanVars == <<semantic_df, cleaned_out>>

constructVars == <<ctor_args, ctor_out>>

batchVars == <<all_texts, chunk_size, batch_out>>

historyVars == <<historical_df, history_out>>

fetchVars == <<fetcher>>

requestVars == <<historical_data, fetched_news, responses>>

\* the variables of the components modelled first, and of those modelled later
coreVars == <<indicators, combined, ti, close_prices, ema_out, macd_out, rsi_out, analysis_out, symbols, news, semantic_out, verdict_pc, price_source, narrator, technical_results, semantic_results, verdict, documents, scores_out, semantic_df, cleaned_out>>

restVars == <<constructVars, batchVars, historyVars, fetchVars, requestVars>>

vars == <<indicators, combined, ti, close_prices, ema_out, macd_out, rsi_out,
          analysis_out, symbols, news, semantic_out, verdict_pc, price_source,
          narrator, technical_results, semantic_results, verdict, documents,
          scores_out, semantic_df, cleaned_out, ctor_args, ctor_out, all_texts,
          chunk_size, batch_out, historical_df, history_out, fetcher,
          historical_data, fetched_news, responses>>

\* Python's None
None == <<>>

(***************************************************************************)
(* Exact rational arithmetic standing for Python floats.                   *)
(***************************************************************************)
Abs(x) == IF x < 0 THEN -x ELSE x

RECURSIVE GCD(_, _)
GCD(a, b) == IF b = 0 THEN a ELSE GCD(b, a % b)

\* float('nan'): every comparison with it is false, every sum and product is NaN
NaN == <<0, 0>>

IsNaN(a) == a[2] = 0

Rat(n, d) ==
    IF d = 0 THEN NaN
    ELSE LET s == IF d < 0 THEN -1 ELSE 1
             g == GCD(Abs(n), Abs(d))
         IN  <<(s * n) \div g, (s * d) \div g>>

RatInt(n) == <<n, 1>>

RatZero == <<0, 1>>

RatAdd(a, b) == Rat(a[1] * b[2] + b[1] * a[2], a[2] * b[2])

RatSub(a, b) == Rat(a[1] * b[2] - b[1] * a[2], a[2] * b[2])

RatMul(a, b) == Rat(a[1] * b[1], a[2] * b[2])

RatDiv(a, b) == Rat(a[1] * b[2], a[2] * b[1])

RatLT(a, b) == a[1] * b[2] < b[1] * a[2]

RatLE(a, b) == a[1] * b[2] <= b[1] * a[2]

RatAbs(a) == <<Abs(a[1]), a[2]>>

\* Python's min(a, b): b if b < a else a
RatMin(a, b) == IF RatLT(b, a) THEN b ELSE a

\* Python's max(a, b): b if b > a else a
RatMax(a, b) == IF RatLT(a, b) THEN b ELSE a

(***************************************************************************)
(* Python strings are TLA+ strings; these are the str operations used.     *)
(***************************************************************************)
\* sub in s
Contains(s, sub) ==
    \E i \in 1..(Len(s) - Len(sub) + 1) : SubSeq(s, i, i + Len(sub) - 1) = sub

\* s.startswith(prefix)
StartsWith(s, prefix) ==
    Len(prefix) <= Len(s) /\ SubSeq(s, 1, Len(prefix)) = prefix

(***************************************************************************)
(* Signal and IndicatorResult (technical_indicators.py).                   *)
(***************************************************************************)
Signal == {"BUY", "SELL", "HOLD"}

IndicatorResult(name, signal, value, reference_value, confidence, description) ==
    [name |-> name, signal |-> signal, value |-> value,
     reference_value |-> reference_value, confidence |-> confidence,
     description |-> description]

(***************************************************************************)
(* TechnicalIndicators._combine_signals                                    *)
(***************************************************************************)
\* sum(1 for ind in indicators if ind.signal == sig)
RECURSIVE CountSignal(_, _)
CountSignal(inds, sig) ==
    IF inds = <<>> THEN 0
    ELSE (IF Head(inds).signal = sig THEN 1 ELSE 0) + CountSignal(Tail(inds), sig)

\* sum(ind.confidence for ind in indicators if ind.signal != Signal.HOLD),
\* accumulated left to right from 0
RECURSIVE SumConfidence(_, _)
SumConfidence(inds, acc) ==
    IF inds = <<>> THEN acc
    ELSE SumConfidence(Tail(inds),
                       IF Head(inds).signal # "HOLD"
                       THEN RatAdd(acc, Head(inds).confidence)
                       ELSE acc)

TotalConfidence(inds) == SumConfidence(inds, RatZero)

\* mutant: the average is taken over all indicators, the HOLD ones included
AvgConfidence_OverAll(inds) ==
    IF Len(inds) > 0
    THEN RatDiv(TotalConfidence(inds), RatInt(Len(inds)))
    ELSE RatZero

AvgConfidence(inds) ==
    LET valid_signals == CountSignal(inds, "BUY") + CountSignal(inds, "SELL")
    IN  IF valid_signals > 0
        THEN RatDiv(TotalConfidence(inds), RatInt(valid_signals))
        ELSE RatZero

\* mutant: a tie is decided for BUY (>= instead of >)
OverallDecision_TieBuys(buy_signals, sell_signals, total_indicators) ==
    IF buy_signals >= sell_signals
    THEN <<"BUY", Rat(buy_signals, total_indicators),
           "BUY - " \o ToString(buy_signals) \o "/" \o ToString(total_indicators)
             \o " indicators bullish">>
    ELSE <<"SELL", Rat(sell_signals, total_indicators),
           "SELL - " \o ToString(sell_signals) \o "/" \o ToString(total_indicators)
             \o " indicators bearish">>

\* the branch taken at lines 298-309: <<overall_signal, signal_strength, recommendation>>
OverallDecision(buy_signals, sell_signals, total_indicators) ==
    IF buy_signals > sell_signals
    THEN <<"BUY", Rat(buy_signals, total_indicators),
           "BUY - " \o ToString(buy_signals) \o "/" \o ToString(total_indicators)
             \o " indicators bullish">>
    ELSE IF sell_signals > buy_signals
    THEN <<"SELL", Rat(sell_signals, total_indicators),
           "SELL - " \o ToString(sell_signals) \o "/" \o ToString(total_indicators)
             \o " indicators bearish">>
    ELSE <<"HOLD", Rat(1, 2),
           "HOLD - Mixed signals (" \o ToString(buy_signals) \o " buy, "
             \o ToString(sell_signals) \o " sell)">>

\* mutant: the cap at 100 is missing
CapConfidence_NoCap(overall_confidence) == overall_confidence

CapConfidence(overall_confidence) == RatMin(overall_confidence, RatInt(100))

\* mutant: the early return for "no BUY and no SELL" is missing
_combine_signals_NoEarlyReturn(inds) ==
    LET d == OverallDecision(CountSignal(inds, "BUY"), CountSignal(inds, "SELL"),
                             Len(inds))
    IN  [signal |-> d[1],
         confidence |-> CapConfidence(RatMul(AvgConfidence(inds), d[2])),
         recommendation |-> d[3]]

\* mutant: a tie is broken in favour of the first indicator of the list
_combine_signals_TieFirst(inds) ==
    LET buy_signals == CountSignal(inds, "BUY")
        sell_signals == CountSignal(inds, "SELL")
        first == IF inds = <<>> THEN "HOLD" ELSE Head(inds).signal
        d == OverallDecision(buy_signals + (IF first = "BUY" THEN 1 ELSE 0),
                             sell_signals + (IF first = "SELL" THEN 1 ELSE 0),
                             Len(inds) + 1)
    IN  IF buy_signals + sell_signals = 0
        THEN [signal |-> "HOLD", confidence |-> RatZero,
              recommendation |-> "No clear signals from indicators"]
        ELSE [signal |-> d[1],
              confidence |-> CapConfidence(RatMul(AvgConfidence(inds), d[2])),
              recommendation |-> d[3]]

_combine_signals(inds) ==
    LET buy_signals == CountSignal(inds, "BUY")
        sell_signals == CountSignal(inds, "SELL")
        total_indicators == Len(inds)
        valid_signals == buy_signals + sell_signals
    IN  IF valid_signals = 0
        THEN [signal |-> "HOLD", confidence |-> RatZero,
              recommendation |-> "No clear signals from indicators"]
        ELSE LET d == OverallDecision(buy_signals, sell_signals, total_indicators)
             IN  [signal |-> d[1],
                  confidence |-> CapConfidence(RatMul(AvgConfidence(inds), d[2])),
                  recommendation |-> d[3]]

(***************************************************************************)
(* String formatting of floats.                                            *)
(***************************************************************************)
RECURSIVE Pow10(_)
Pow10(k) == IF k = 0 THEN 1 ELSE 10 * Pow10(k - 1)

\* the digits of |a| * 10^k rounded to an integer (ties to even), by long
\* division: <<quotient, remainder>> after k decimal places
RECURSIVE LongDiv(_, _, _, _)
LongDiv(q, r, d, k) ==
    IF k = 0 THEN <<q, r>>
    ELSE LongDiv(q * 10 + ((r * 10) \div d), (r * 10) % d, d, k - 1)

RoundScaled(a, k) ==
    LET qr == LongDiv(Abs(a[1]) \div a[2], Abs(a[1]) % a[2], a[2], k)
        q == qr[1]
        r == qr[2]
    IN  IF 2 * r > a[2] \/ (2 * r = a[2] /\ q % 2 = 1) THEN q + 1 ELSE q

RECURSIVE ZeroPad(_, _)
ZeroPad(n, width) ==
    IF width = 0 THEN ""
    ELSE ZeroPad(n \div 10, width - 1) \o ToString(n % 10)

\* f"{a:.kf}"
FormatFixed(a, k) ==
    IF IsNaN(a) THEN "nan"
    ELSE LET q == RoundScaled(a, k)
         IN  (IF a[1] < 0 THEN "-" ELSE "") \o ToString(q \div Pow10(k))
             \o (IF k > 0 THEN "." \o ZeroPad(q % Pow10(k), k) ELSE "")

\* f"{a}" of a float holding a whole number (30.0 -> "30.0"); other values
\* are shown with two decimals
ReprFloat(a) ==
    IF IsNaN(a) THEN "nan"
    ELSE IF a[2] = 1 THEN ToString(a[1]) \o ".0"
    ELSE FormatFixed(a, 2)

(***************************************************************************)
(* TA-Lib (talib.EMA, talib.MACD, talib.RSI) as the library computes them, *)
(* default compatibility, unstable period 0.  Arrays are 1-based here.     *)
(***************************************************************************)
NaNs(n) == [i \in 1..n |-> NaN]

\* tempReal += inReal[today++] for today in lo..hi, left to right
RECURSIVE SumRange(_, _, _)
SumRange(xs, lo, hi) ==
    IF lo > hi THEN RatZero ELSE RatAdd(SumRange(xs, lo, hi - 1), xs[hi])

PER_TO_K(period) == Rat(2, period + 1)

\* prevMA = ((inReal[today++] - prevMA) * k) + prevMA, for today..end; the new
\* average is bound as a value before the run goes on
RECURSIVE EmaRun(_, _, _, _)
EmaRun(xs, k, today, prevMA) ==
    IF today > Len(xs) THEN <<>>
    ELSE CHOOSE run \in {<<ma>> \o EmaRun(xs, k, today + 1, ma) :
                             ma \in {RatAdd(RatMul(RatSub(xs[today], prevMA), k), prevMA)}} :
             TRUE

\* TA_INT_EMA: the seed at startIdx is the simple average of the `period`
\* values ending there
TA_INT_EMA(xs, startIdx, period, k) ==
    LET seed == RatDiv(SumRange(xs, startIdx - period + 1, startIdx), RatInt(period))
    IN  <<seed>> \o EmaRun(xs, k, startIdx + 1, seed)

talib_EMA(xs, timeperiod) ==
    IF Len(xs) < timeperiod THEN NaNs(Len(xs))
    ELSE NaNs(timeperiod - 1)
         \o TA_INT_EMA(xs, timeperiod, timeperiod, PER_TO_K(timeperiod))

talib_MACD(xs, fastperiod, slowperiod, signalperiod) ==
    LET slow == IF slowperiod < fastperiod THEN fastperiod ELSE slowperiod
        fast == IF slowperiod < fastperiod THEN slowperiod ELSE fastperiod
        lookback == (slow - 1) + (signalperiod - 1)
    IN  IF Len(xs) <= lookback
        THEN [macd |-> NaNs(Len(xs)), signal |-> NaNs(Len(xs)),
              histogram |-> NaNs(Len(xs))]
        ELSE LET slowEMA == TA_INT_EMA(xs, slow, slow, PER_TO_K(slow))
                 fastEMA == TA_INT_EMA(xs, slow, fast, PER_TO_K(fast))
                 diff == [i \in 1..Len(slowEMA) |-> RatSub(fastEMA[i], slowEMA[i])]
                 sig == TA_INT_EMA(diff, signalperiod, signalperiod,
                                   PER_TO_K(signalperiod))
                 macd == SubSeq(diff, signalperiod, Len(diff))
             IN  [macd |-> NaNs(lookback) \o macd,
                  signal |-> NaNs(lookback) \o sig,
                  histogram |-> NaNs(lookback)
                      \o [i \in 1..Len(sig) |-> RatSub(macd[i], sig[i])]]

\* the gain (sign = 1) or loss (sign = -1) of the step to xs[today]
Move(xs, today, sign) ==
    LET d == RatSub(xs[today], xs[today - 1])
    IN  IF sign = 1
        THEN (IF RatLT(d, RatZero) THEN RatZero ELSE d)
        ELSE (IF RatLT(d, RatZero) THEN RatSub(RatZero, d) ELSE RatZero)

RECURSIVE SumMoves(_, _, _, _)
SumMoves(xs, lo, hi, sign) ==
    IF lo > hi THEN RatZero
    ELSE RatAdd(SumMoves(xs, lo, hi - 1, sign), Move(xs, hi, sign))

\* 100 * (prevGain / (prevGain + prevLoss)), and 0.0 when the sum is zero
RsiValue(prevGain, prevLoss) ==
    LET t == RatAdd(prevGain, prevLoss)
    IN  IF t # RatZero THEN RatMul(RatInt(100), RatDiv(prevGain, t)) ELSE RatZero

\* Wilder smoothing: prev = (prev * (period - 1) + move) / period; the new
\* averages are bound as values before the run goes on
RECURSIVE RsiRun(_, _, _, _, _)
RsiRun(xs, period, today, prevGain, prevLoss) ==
    IF today > Len(xs) THEN <<>>
    ELSE CHOOSE run \in {<<RsiValue(gain, loss)>> \o RsiRun(xs, period, today + 1, gain, loss) :
                             gain \in {RatDiv(RatAdd(RatMul(prevGain, RatInt(period - 1)),
                                                      Move(xs, today, 1)), RatInt(period))},
                             loss \in {RatDiv(RatAdd(RatMul(prevLoss, RatInt(period - 1)),
                                                      Move(xs, today, -1)), RatInt(period))}} :
             TRUE

talib_RSI(xs, timeperiod) ==
    IF Len(xs) <= timeperiod THEN NaNs(Len(xs))
    ELSE LET gain == RatDiv(SumMoves(xs, 2, timeperiod + 1, 1), RatInt(timeperiod))
             loss == RatDiv(SumMoves(xs, 2, timeperiod + 1, -1), RatInt(timeperiod))
         IN  NaNs(timeperiod) \o <<RsiValue(gain, loss)>>
             \o RsiRun(xs, timeperiod, timeperiod + 2, gain, loss)

(***************************************************************************)
(* TechnicalIndicators: constructor and the three indicators.              *)
(***************************************************************************)
Max2(a, b) == IF a > b THEN a ELSE b

\* mutant: min_data_points without the margin of 10
TechnicalIndicators_NoMargin(ema_period, macd_fast, macd_slow, macd_signal, rsi_period, rsi_oversold, rsi_overbought) ==
    [ema_period |-> ema_period, macd_fast |-> macd_fast, macd_slow |-> macd_slow,
     macd_signal |-> macd_signal, rsi_period |-> rsi_period,
     rsi_oversold |-> rsi_oversold, rsi_overbought |-> rsi_overbought,
     min_data_points |->
         Max2(ema_period, Max2(macd_slow + macd_signal, rsi_period))]

\* lines 47-76
TechnicalIndicators(ema_period, macd_fast, macd_slow, macd_signal, rsi_period, rsi_oversold, rsi_overbought) ==
    [ema_period |-> ema_period, macd_fast |-> macd_fast, macd_slow |-> macd_slow,
     macd_signal |-> macd_signal, rsi_period |-> rsi_period,
     rsi_oversold |-> rsi_oversold, rsi_overbought |-> rsi_overbought,
     min_data_points |->
         Max2(ema_period, Max2(macd_slow + macd_signal, rsi_period)) + 10]

DefaultTechnicalIndicators ==
    TechnicalIndicators(20, 12, 26, 9, 14, RatInt(30), RatInt(70))

Last(xs) == xs[Len(xs)]

\* the length guard of calculate_ema
EmaInsufficient(self, prices) == Len(prices) < self.ema_period

\* mutant: the cap at 100 is missing
EmaConfidence_NoCap(above, below, current_ema) ==
    RatMul(RatDiv(RatSub(above, below), current_ema), RatInt(100))

\* lines 104 and 108: min((above - below) / current_ema * 100, 100)
EmaConfidence(above, below, current_ema) ==
    RatMin(RatMul(RatDiv(RatSub(above, below), current_ema), RatInt(100)), RatInt(100))

calculate_ema(self, prices) ==
    IF EmaInsufficient(self, prices)
    THEN <<<<>>,
           IndicatorResult("EMA", "HOLD", RatZero, None, RatZero,
               "Insufficient data for EMA (" \o ToString(Len(prices)) \o " < "
               \o ToString(self.ema_period) \o ")")>>
    ELSE LET ema_values == talib_EMA(prices, self.ema_period)
             current_price == Last(prices)
             current_ema == Last(ema_values)
             shown == "Price ($" \o FormatFixed(current_price, 2) \o ") "
             shownEma == " EMA ($" \o FormatFixed(current_ema, 2) \o ")"
         IN  IF RatLT(current_ema, current_price)
             THEN <<ema_values,
                    IndicatorResult("EMA", "BUY", current_ema, current_price,
                        EmaConfidence(current_price, current_ema, current_ema),
                        shown \o "above" \o shownEma)>>
             ELSE IF RatLT(current_price, current_ema)
             THEN <<ema_values,
                    IndicatorResult("EMA", "SELL", current_ema, current_price,
                        EmaConfidence(current_ema, current_price, current_ema),
                        shown \o "below" \o shownEma)>>
             ELSE <<ema_values,
                    IndicatorResult("EMA", "HOLD", current_ema, current_price,
                        RatZero, shown \o "at" \o shownEma)>>

\* mutant: the guard forgets the signal period
MacdInsufficient_SlowOnly(self, prices) == Len(prices) < self.macd_slow

\* the length guard of calculate_macd
MacdInsufficient(self, prices) == Len(prices) < self.macd_slow + self.macd_signal

\* mutant: the comparisons are not strict
MacdSignal_NonStrict(current_macd, current_signal, current_histogram) ==
    IF RatLE(current_signal, current_macd) /\ RatLE(RatZero, current_histogram)
    THEN "BUY"
    ELSE IF RatLE(current_macd, current_signal) /\ RatLE(current_histogram, RatZero)
    THEN "SELL"
    ELSE "HOLD"

\* the signal chosen from the last MACD, signal and histogram values
MacdSignal(current_macd, current_signal, current_histogram) ==
    IF RatLT(current_signal, current_macd) /\ RatLT(RatZero, current_histogram)
    THEN "BUY"
    ELSE IF RatLT(current_macd, current_signal) /\ RatLT(current_histogram, RatZero)
    THEN "SELL"
    ELSE "HOLD"

\* min(abs(current_histogram) * 1000, 100) for BUY and SELL, 0.0 for HOLD
MacdConfidence(signal, current_histogram) ==
    IF signal = "HOLD" THEN RatZero
    ELSE RatMin(RatMul(RatAbs(current_histogram), RatInt(1000)), RatInt(100))

calculate_macd(self, prices) ==
    IF MacdInsufficient(self, prices)
    THEN <<<<>>,
           IndicatorResult("MACD", "HOLD", RatZero, None, RatZero,
               "Insufficient data for MACD (" \o ToString(Len(prices)) \o " < "
               \o ToString(self.macd_slow + self.macd_signal) \o ")")>>
    ELSE LET macd_data == talib_MACD(prices, self.macd_fast, self.macd_slow,
                                     self.macd_signal)
             current_macd == Last(macd_data.macd)
             current_signal == Last(macd_data.signal)
             current_histogram == Last(macd_data.histogram)
             signal == MacdSignal(current_macd, current_signal, current_histogram)
             word == IF signal = "BUY" THEN "above"
                     ELSE IF signal = "SELL" THEN "below" ELSE "near"
         IN  <<macd_data,
               IndicatorResult("MACD", signal, current_macd, current_signal,
                   MacdConfidence(signal, current_histogram),
                   "MACD (" \o FormatFixed(current_macd, 4) \o ") " \o word
                   \o " Signal (" \o FormatFixed(current_signal, 4) \o ")")>>

\* the length guard of calculate_rsi
RsiInsufficient(self, prices) == Len(prices) < self.rsi_period + 1

\* mutant: the comparisons with the thresholds are not strict
RsiSignal_NonStrict(self, current_rsi) ==
    IF RatLE(current_rsi, self.rsi_oversold) THEN "BUY"
    ELSE IF RatLE(self.rsi_overbought, current_rsi) THEN "SELL"
    ELSE "HOLD"

\* lines 207-218: the branch taken for the last RSI value
RsiSignal(self, current_rsi) ==
    IF RatLT(current_rsi, self.rsi_oversold) THEN "BUY"
    ELSE IF RatLT(self.rsi_overbought, current_rsi) THEN "SELL"
    ELSE "HOLD"

calculate_rsi(self, prices) ==
    IF RsiInsufficient(self, prices)
    THEN <<<<>>,
           IndicatorResult("RSI", "HOLD", RatZero, None, RatZero,
               "Insufficient data for RSI (" \o ToString(Len(prices)) \o " < "
               \o ToString(self.rsi_period + 1) \o ")")>>
    ELSE LET rsi_values == talib_RSI(prices, self.rsi_period)
             current_rsi == Last(rsi_values)
             shown == "RSI (" \o FormatFixed(current_rsi, 2) \o ") "
         IN  IF RsiSignal(self, current_rsi) = "BUY"
             THEN <<rsi_values,
                    IndicatorResult("RSI", "BUY", current_rsi, None,
                        RatMin(RatMul(RatDiv(RatSub(self.rsi_oversold, current_rsi),
                                             self.rsi_oversold), RatInt(100)),
                               RatInt(100)),
                        shown \o "oversold (< " \o ReprFloat(self.rsi_oversold) \o ")")>>
             ELSE IF RsiSignal(self, current_rsi) = "SELL"
             THEN <<rsi_values,
                    IndicatorResult("RSI", "SELL", current_rsi, None,
                        RatMin(RatMul(RatDiv(RatSub(current_rsi, self.rsi_overbought),
                                             RatSub(RatInt(100), self.rsi_overbought)),
                                      RatInt(100)),
                               RatInt(100)),
                        shown \o "overbought (> " \o ReprFloat(self.rsi_overbought)
                        \o ")")>>
             ELSE <<rsi_values,
                    IndicatorResult("RSI", "HOLD", current_rsi, None, RatZero,
                        shown \o "in neutral zone")>>

\* mutant: the guard is the trend indicator's own minimum
AnalyzeInsufficient_EmaOnly(self, prices) == Len(prices) < self.ema_period

\* line 239
AnalyzeInsufficient(self, prices) == Len(prices) < self.min_data_points

\* lines 259-277: the TechnicalAnalysisResult (its symbol and datetime left out)
TechnicalAnalysisResult(prices, inds, overall) ==
    [current_price |-> Last(prices), indicators |-> inds,
     overall_signal |-> overall.signal,
     overall_confidence |-> overall.confidence,
     recommendation |-> overall.recommendation]

\* lines 256-257: the overall signal of the indicators computed
AnalyzeIndicators(prices, inds) ==
    TechnicalAnalysisResult(prices, inds, _combine_signals(inds))

\* TA-Lib's parameter ranges: the timeperiod of EMA and of RSI and the fast
\* and slow periods of MACD are from 2, the signal period from 1; outside
\* them the call returns TA_BAD_PARAM, which the Python wrapper raises.
talib_BadParam(self) ==
    \/ self.ema_period < 2
    \/ self.macd_fast < 2
    \/ self.macd_slow < 2
    \/ self.macd_signal < 1
    \/ self.rsi_period < 2

\* analyze_symbol on the close column of one symbol's rows.  The outcome is
\* [raised, value]: on no rows at all symbol_data['symbol'].iloc[0] (line 240)
\* raises IndexError; below min_data_points the value is None; from
\* min_data_points on every indicator's length guard passes and TA-Lib is
\* called, which raises on a period outside its range; otherwise the value
\* is the TechnicalAnalysisResult.
analyze_symbol(self, prices) ==
    IF AnalyzeInsufficient(self, prices)
    THEN [raised |-> Len(prices) = 0, value |-> None]
    ELSE IF talib_BadParam(self)
    THEN [raised |-> TRUE, value |-> None]
    ELSE [raised |-> FALSE,
          value |-> AnalyzeIndicators(prices, <<calculate_ema(self, prices)[2],
                                                calculate_macd(self, prices)[2],
                                                calculate_rsi(self, prices)[2]>>)]

IndicatorsIdle ==
    /\ ti = DefaultTechnicalIndicators
    /\ close_prices = <<>>
    /\ ema_out = <<>>
    /\ macd_out = <<>>
    /\ rsi_out = <<>>
    /\ analysis_out = <<>>

(***************************************************************************)
(* FinancialSemanticAnalyzer (semantic_analyzer.py).                       *)
(*                                                                         *)
(* A text is modelled by what the classifier does with it: a text is       *)
(* [raises, response], where the call raises if raises is true and         *)
(* otherwise returns response, a list of <<label, score>> elements.        *)
(***************************************************************************)
\* Python's seq[lo:hi] for 0 <= lo (0-based, hi exclusive, clamped to the length)
PySlice(seq, lo, hi) ==
    LET n == Len(seq)
        a == IF lo > n THEN n ELSE lo
        b == IF hi > n THEN n ELSE hi
    IN  IF b <= a THEN <<>> ELSE SubSeq(seq, a + 1, b)

\* label.lower() on the labels the classifier uses
Lower(label) ==
    IF label = "Positive" THEN "positive"
    ELSE IF label = "Negative" THEN "negative"
    ELSE IF label = "Neutral" THEN "neutral"
    ELSE label

\* sentiment_scores[key] = value on a dict kept as a list of <<key, value>>
\* in insertion order
DictSet(d, key, value) ==
    IF \E i \in DOMAIN d : d[i][1] = key
    THEN [i \in DOMAIN d |-> IF d[i][1] = key THEN <<key, value>> ELSE d[i]]
    ELSE Append(d, <<key, value>>)

\* sentiment_scores.get(key, 0.0)
DictGet(d, key) ==
    IF \E i \in DOMAIN d : d[i][1] = key
    THEN d[CHOOSE i \in DOMAIN d : d[i][1] = key][2]
    ELSE RatZero

RECURSIVE BuildScores(_, _)
BuildScores(response, d) ==
    IF response = <<>> THEN d
    ELSE BuildScores(Tail(response),
                     DictSet(d, Lower(Head(response)[1]), Head(response)[2]))

\* max(sentiment_scores.keys(), key=...): the first key holding the largest score
BestKey(d) ==
    d[CHOOSE i \in DOMAIN d :
        /\ \A j \in DOMAIN d : RatLE(d[j][2], d[i][2])
        /\ \A j \in DOMAIN d : j < i => RatLT(d[j][2], d[i][2])][1]

SentimentResult(sentiment, confidence, positive_score, negative_score, neutral_score, weighted_sentiment) ==
    [sentiment |-> sentiment, confidence |-> confidence,
     positive_score |-> positive_score, negative_score |-> negative_score,
     neutral_score |-> neutral_score, weighted_sentiment |-> weighted_sentiment]

NeutralResult ==
    SentimentResult("neutral", RatZero, RatZero, RatZero, RatInt(1), RatZero)

\* lines 69-112: one classifier response turned into a result
ClassifyResponse(response) ==
    IF response = <<>> THEN NeutralResult
    ELSE LET sentiment_scores == BuildScores(response, <<>>)
             best_sentiment == BestKey(sentiment_scores)
             positive_score == DictGet(sentiment_scores, "positive")
             negative_score == DictGet(sentiment_scores, "negative")
             neutral_score == DictGet(sentiment_scores, "neutral")
         IN  SentimentResult(best_sentiment,
                             DictGet(sentiment_scores, best_sentiment),
                             positive_score, negative_score, neutral_score,
                             RatAdd(RatAdd(RatMul(positive_score, RatInt(1)),
                                           RatMul(negative_score, RatInt(-1))),
                                    RatMul(neutral_score, RatZero)))

\* one batch in which only the texts whose call raises get the neutral result
BatchResults_OnlyFailing(batch_texts) ==
    [j \in DOMAIN batch_texts |->
        IF batch_texts[j].raises THEN NeutralResult
        ELSE ClassifyResponse(batch_texts[j].response)]

\* one batch: the classified texts, or one neutral result per text when any
\* call of the batch raises
BatchResults(batch_texts) ==
    IF \E j \in DOMAIN batch_texts : batch_texts[j].raises
    THEN [j \in DOMAIN batch_texts |-> NeutralResult]
    ELSE [j \in DOMAIN batch_texts |-> ClassifyResponse(batch_texts[j].response)]

\* the loop of lines 53-132 leaving out a last batch shorter than batch_size
RECURSIVE AnalyzeFrom_FullBatchesOnly(_, _, _)
AnalyzeFrom_FullBatchesOnly(texts, batch_size, i) ==
    IF i + batch_size > Len(texts) THEN <<>>
    ELSE BatchResults(PySlice(texts, i, i + batch_size))
         \o AnalyzeFrom_FullBatchesOnly(texts, batch_size, i + batch_size)

\* the loop of lines 53-132 from index i on
RECURSIVE AnalyzeFrom(_, _, _)
AnalyzeFrom(texts, batch_size, i) ==
    IF i >= Len(texts) THEN <<>>
    ELSE BatchResults(PySlice(texts, i, i + batch_size))
         \o AnalyzeFrom(texts, batch_size, i + batch_size)

analyze_sentiment_batch(texts, batch_size) ==
    IF texts = <<>> THEN <<>> ELSE AnalyzeFrom(texts, batch_size, 0)

\* the default of analyze_sentiment_batch's batch_size parameter
DefaultBatchSize == 10

RECURSIVE SumSeq(_)
SumSeq(xs) == IF xs = <<>> THEN RatZero ELSE RatAdd(SumSeq(SubSeq(xs, 1, Len(xs) - 1)), Last(xs))

\* mutant: the last element is counted twice
Mean_LastTwice(xs) == RatDiv(RatAdd(SumSeq(xs), Last(xs)), RatInt(Len(xs) + 1))

\* np.mean
Mean(xs) == RatDiv(SumSeq(xs), RatInt(Len(xs)))

\* np.std(xs) ** 2: the population variance (the root itself is not rational)
Variance(xs) ==
    LET m == Mean(xs)
    IN  Mean([i \in DOMAIN xs |-> RatMul(RatSub(xs[i], m), RatSub(xs[i], m))])

\* mutant: a document is counted for a class when its score for that class is
\* at least one half, whatever its label
CountSentiment_ByScore(results, label) ==
    Cardinality({i \in DOMAIN results :
                    RatLE(Rat(1, 2), results[i][label \o "_score"])})

CountSentiment(results, label) ==
    Cardinality({i \in DOMAIN results : results[i].sentiment = label})

SignedConfidence(r) ==
    IF r.sentiment = "positive" THEN r.confidence
    ELSE IF r.sentiment = "negative" THEN RatSub(RatZero, r.confidence)
    ELSE RatZero

\* mutant: the aggregate of an empty list is the neutral row of
\* process_semantic_analysis (neutral_ratio 1.0)
EmptyAggregate_NeutralOne ==
    [overall_sentiment |-> RatZero, weighted_sentiment_avg |-> RatZero,
     positive_ratio |-> RatZero, negative_ratio |-> RatZero,
     neutral_ratio |-> RatInt(1), average_confidence |-> RatZero,
     sentiment_momentum_squared |-> RatZero, avg_positive_score |-> RatZero,
     avg_negative_score |-> RatZero, avg_neutral_score |-> RatZero]

\* lines 214-225: the aggregate of an empty list
EmptyAggregate ==
    [overall_sentiment |-> RatZero, weighted_sentiment_avg |-> RatZero,
     positive_ratio |-> RatZero, negative_ratio |-> RatZero,
     neutral_ratio |-> RatZero, average_confidence |-> RatZero,
     sentiment_momentum_squared |-> RatZero, avg_positive_score |-> RatZero,
     avg_negative_score |-> RatZero, avg_neutral_score |-> RatZero]

\* sentiment_momentum_squared stands for sentiment_momentum = np.std(...)
calculate_sentiment_scores(sentiment_results) ==
    IF sentiment_results = <<>>
    THEN EmptyAggregate
    ELSE LET total_count == Len(sentiment_results)
             col(f) == [i \in DOMAIN sentiment_results |-> sentiment_results[i][f]]
         IN  [overall_sentiment |->
                  Mean([i \in DOMAIN sentiment_results |->
                            SignedConfidence(sentiment_results[i])]),
              weighted_sentiment_avg |-> Mean(col("weighted_sentiment")),
              positive_ratio |->
                  Rat(CountSentiment(sentiment_results, "positive"), total_count),
              negative_ratio |->
                  Rat(CountSentiment(sentiment_results, "negative"), total_count),
              neutral_ratio |->
                  Rat(CountSentiment(sentiment_results, "neutral"), total_count),
              average_confidence |-> Mean(col("confidence")),
              sentiment_momentum_squared |-> Variance(col("weighted_sentiment")),
              avg_positive_score |-> Mean(col("positive_score")),
              avg_negative_score |-> Mean(col("negative_score")),
              avg_neutral_score |-> Mean(col("neutral_score"))]

\* get_benzinga_news: what the fetch for one symbol adds to news_data.  A
\* fetch is [status, articles]: "ok" (a dict payload with these articles),
\* "error" (a request or JSON error, caught and skipped) or "list" (a list
\* payload, on which data.get raises AttributeError)
NewsRows(symbol, fetch) ==
    IF fetch.status = "ok"
    THEN [i \in DOMAIN fetch.articles |-> [symbol |-> symbol, text |-> fetch.articles[i]]]
    ELSE <<>>

RECURSIVE BenzingaRows(_, _)
BenzingaRows(syms, fetched) ==
    IF syms = <<>> THEN <<>>
    ELSE NewsRows(Head(syms), fetched[Head(syms)]) \o BenzingaRows(Tail(syms), fetched)

get_benzinga_news(syms, fetched) ==
    IF \E i \in DOMAIN syms : fetched[syms[i]].status = "list"
    THEN [raised |-> TRUE, rows |-> <<>>]
    ELSE [raised |-> FALSE, rows |-> BenzingaRows(syms, fetched)]

\* news_df[news_df['symbol'] == symbol]
SymbolNews(news_df, symbol) == SelectSeq(news_df, LAMBDA row : row.symbol = symbol)

\* line 299: the slice of the flat result list taken for the symbol handled
\* after `done` earlier symbols, which has `count` articles
SymbolSentiments(sentiment_results, done, count) ==
    PySlice(sentiment_results, done * count, (done + 1) * count)

AnalysisDate == "today"

\* one entry of symbol_analysis (lines 295-324)
SymbolAnalysis(symbol, done, news_df, sentiment_results) ==
    LET symbol_news == SymbolNews(news_df, symbol)
    IN  IF symbol_news # <<>>
        THEN [symbol |-> symbol, news_count |-> Len(symbol_news),
              analysis_date |-> AnalysisDate]
             @@ calculate_sentiment_scores(
                    SymbolSentiments(sentiment_results, done, Len(symbol_news)))
        ELSE [symbol |-> symbol, news_count |-> 0, analysis_date |-> AnalysisDate,
              overall_sentiment |-> RatZero, weighted_sentiment_avg |-> RatZero,
              positive_ratio |-> RatZero, negative_ratio |-> RatZero,
              neutral_ratio |-> RatInt(1), average_confidence |-> RatZero,
              sentiment_momentum_squared |-> RatZero, avg_positive_score |-> RatZero,
              avg_negative_score |-> RatZero, avg_neutral_score |-> RatInt(1)]

\* the outcome of process_semantic_analysis: raised, or the rows of the
\* returned DataFrame (none for the empty DataFrame)
process_semantic_analysis(syms, fetched) ==
    LET got == get_benzinga_news(syms, fetched)
        news_df == got.rows
        texts == [i \in DOMAIN news_df |-> news_df[i].text]
        sentiment_results == analyze_sentiment_batch(texts, DefaultBatchSize)
    IN  IF got.raised THEN [raised |-> TRUE, rows |-> <<>>]
        ELSE IF news_df = <<>> THEN [raised |-> FALSE, rows |-> <<>>]
        ELSE [raised |-> FALSE,
              rows |-> [j \in DOMAIN syms |->
                           SymbolAnalysis(syms[j], j - 1, news_df, sentiment_results)]]

NoFetch == [status |-> "ok", articles |-> <<>>]

AllSymbols == <<"AAPL", "MSFT">>

SemanticIdle ==
    /\ symbols = <<>>
    /\ news = [s \in {AllSymbols[i] : i \in DOMAIN AllSymbols} |-> NoFetch]
    /\ semantic_out = <<>>

ScoresIdle == documents = <<>> /\ scores_out = <<>>

(***************************************************************************)
(* clean_data_for_downstream (semantic_analyzer.py).  A DataFrame is the   *)
(* list of its rows, each a function from column name to value.            *)
(***************************************************************************)
RequiredColumns ==
    {"symbol", "overall_sentiment", "weighted_sentiment_avg", "positive_ratio",
     "negative_ratio", "average_confidence"}

\* lines 348-350 with every present column overwritten as well
WithRequiredColumns_Overwrite(row) ==
    [c \in RequiredColumns |-> RatZero] @@ row

\* lines 348-350: every missing required column is created holding 0.0
WithRequiredColumns(row) ==
    row @@ [c \in RequiredColumns \ DOMAIN row |-> RatZero]

\* lines 353-357 with the comparisons taken as >= and <=
SentimentSignal_NonStrict(weighted_sentiment_avg) ==
    IF RatLE(Rat(1, 10), weighted_sentiment_avg) /\ ~IsNaN(weighted_sentiment_avg) THEN 1
    ELSE IF RatLE(weighted_sentiment_avg, Rat(-1, 10)) /\ ~IsNaN(weighted_sentiment_avg)
         THEN -1
    ELSE 0

\* lines 353-357
SentimentSignal(weighted_sentiment_avg) ==
    IF RatLT(Rat(1, 10), weighted_sentiment_avg) THEN 1
    ELSE IF RatLT(weighted_sentiment_avg, Rat(-1, 10)) THEN -1
    ELSE 0

RECURSIVE SeqMax(_)
SeqMax(xs) ==
    IF Len(xs) = 1 THEN xs[1] ELSE RatMax(SeqMax(SubSeq(xs, 1, Len(xs) - 1)), Last(xs))

\* Series.max(): the largest cell, the missing ones (NaN) skipped, NaN when none is left
ColumnMax(xs) ==
    LET present == SelectSeq(xs, LAMBDA x : ~IsNaN(x))
    IN  IF present = <<>> THEN NaN ELSE SeqMax(present)

\* lines 360-366 with the division done whatever the maximum is
ConfidenceNormalized_AlwaysDivide(average_confidence, top) ==
    RatDiv(average_confidence, top)

\* lines 360-366: one cell of confidence_normalized, top being the column's maximum
ConfidenceNormalized(average_confidence, top) ==
    IF RatLT(RatZero, top) THEN RatDiv(average_confidence, top) ELSE RatZero

\* the frame is changed in place and returned (line 368)
clean_data_for_downstream(semantic_rows) ==
    LET rows == [i \in DOMAIN semantic_rows |-> WithRequiredColumns(semantic_rows[i])]
        top == ColumnMax([i \in DOMAIN rows |-> rows[i].average_confidence])
    IN  [i \in DOMAIN rows |->
            [sentiment_signal |-> SentimentSignal(rows[i].weighted_sentiment_avg),
             confidence_normalized |->
                 ConfidenceNormalized(rows[i].average_confidence, top)]
            @@ rows[i]]

CleanIdle == semantic_df = <<>> /\ cleaned_out = <<>>


(***************************************************************************)
(* TechnicalAnalyzer (technical_analyzer.py).  A DataFrame of bars is the  *)
(* list of its rows; datetime is a number, symbols compare as strings do.  *)
(***************************************************************************)
\* the order of the symbol strings
SymbolRank(symbol) == CHOOSE i \in DOMAIN AllSymbols : AllSymbols[i] = symbol

\* sort_values(["symbol", "datetime"]): row a has to come after row b
SortsAfter(a, b) ==
    \/ SymbolRank(a.symbol) > SymbolRank(b.symbol)
    \/ a.symbol = b.symbol /\ a.datetime > b.datetime

\* rows, already sorted, with one more row put behind the rows it does not
\* have to precede
RECURSIVE InsertRow(_, _)
InsertRow(sorted, row) ==
    IF sorted = <<>> THEN <<row>>
    ELSE IF SortsAfter(Last(sorted), row)
    THEN Append(InsertRow(SubSeq(sorted, 1, Len(sorted) - 1), row), Last(sorted))
    ELSE Append(sorted, row)

\* sort_values(...).reset_index(drop=True), rows of equal key keeping their order
RECURSIVE SortRows(_)
SortRows(rows) ==
    IF rows = <<>> THEN <<>>
    ELSE InsertRow(SortRows(SubSeq(rows, 1, Len(rows) - 1)), Last(rows))

\* lines 255-262 with volume > 0 in place of volume >= 0
PossibleRow_PositiveVolume(row) ==
    /\ RatLT(RatZero, row.open)
    /\ RatLT(RatZero, row.high)
    /\ RatLT(RatZero, row.low)
    /\ RatLT(RatZero, row.close)
    /\ RatLT(RatZero, row.volume)
    /\ RatLE(row.low, row.high) /\ ~IsNaN(row.low) /\ ~IsNaN(row.high)

\* lines 255-262: the mask of the rows kept (a comparison with NaN is false)
PossibleRow(row) ==
    /\ RatLT(RatZero, row.open)
    /\ RatLT(RatZero, row.high)
    /\ RatLT(RatZero, row.low)
    /\ RatLT(RatZero, row.close)
    /\ RatLE(RatZero, row.volume) /\ ~IsNaN(row.volume)
    /\ RatLE(row.low, row.high) /\ ~IsNaN(row.low) /\ ~IsNaN(row.high)

\* groupby("symbol")["close"].shift(1): the close of the row before, when it
\* is of the same symbol, else None
PrevClose(df, i) ==
    IF i > 1 /\ df[i - 1].symbol = df[i].symbol THEN df[i - 1].close ELSE None

\* np.maximum(high - low, np.maximum(|high - prev_close|, |low - prev_close|)),
\* and high - low where there is no previous close
TrueRange(row, prev_close) ==
    IF prev_close = None THEN RatSub(row.high, row.low)
    ELSE RatMax(RatSub(row.high, row.low),
                RatMax(RatAbs(RatSub(row.high, prev_close)),
                       RatAbs(RatSub(row.low, prev_close))))

\* _add_basic_features and the column selection of lines 266-283
WithBasicFeatures(df, i) ==
    [symbol |-> df[i].symbol, datetime |-> df[i].datetime,
     open |-> df[i].open, high |-> df[i].high, low |-> df[i].low,
     close |-> df[i].close, volume |-> df[i].volume,
     price_change |->
         IF PrevClose(df, i) = None THEN RatZero
         ELSE RatSub(df[i].close, PrevClose(df, i)),
     price_change_pct |->
         IF PrevClose(df, i) = None THEN RatZero
         ELSE RatMul(RatSub(RatDiv(df[i].close, PrevClose(df, i)), RatInt(1)),
                     RatInt(100)),
     typical_price |->
         RatDiv(RatAdd(RatAdd(df[i].high, df[i].low), df[i].close), RatInt(3)),
     true_range |-> TrueRange(df[i], PrevClose(df, i))]

\* the sorted frame filtered by the mask, with the features added
CleanSorted(sorted) ==
    [i \in DOMAIN SelectSeq(sorted, PossibleRow) |->
        WithBasicFeatures(SelectSeq(sorted, PossibleRow), i)]

_clean_historical_data(df) ==
    IF df = <<>> THEN df ELSE CleanSorted(SortRows(df))


\* _fetch_symbol, seen from get_historical_data: the fetch of a symbol is
\* [status, rows]: "data" (the parsed bars), "empty" (a payload without
\* data: an empty DataFrame is returned), "http_error" (raise_for_status
\* raises) or "api_error" (an error payload: ValueError is raised); what is
\* raised is caught at line 105.
\* raw["symbol"] = sym
WithSymbol(rows, sym) ==
    [i \in DOMAIN rows |->
        [symbol |-> sym, datetime |-> rows[i].datetime, open |-> rows[i].open,
         high |-> rows[i].high, low |-> rows[i].low, close |-> rows[i].close,
         volume |-> rows[i].volume]]

\* lines 98-106: dfs after the try block of one iteration
AfterFetch(dfs, sym, fetch) ==
    IF fetch.status = "data" THEN Append(dfs, WithSymbol(fetch.rows, sym)) ELSE dfs

\* lines 100-102 and 109-110: time.sleep is reached unless the iteration ended
\* with `continue`, and is called when a symbol is left
PauseFollows(fetch, idx, count) == fetch.status # "empty" /\ idx < count

\* pd.concat(dfs, ignore_index=True)
RECURSIVE Concat(_)
Concat(dfs) == IF dfs = <<>> THEN <<>> ELSE Head(dfs) \o Concat(Tail(dfs))

\* lines 112-117
HistoricalResult(dfs) ==
    IF dfs = <<>> THEN <<>> ELSE _clean_historical_data(Concat(dfs))

(***************************************************************************)
(* AIVerdictSystem (ai_verdict_system.py).                                 *)
(***************************************************************************)
\* the error of a record: None, or the one-element tuple of its message
ErrorText(message) == <<message>>

\* dict.get(key, default)
Get(d, key, default) == IF key \in DOMAIN d THEN d[key] ELSE default

\* the empty dict
EmptyDict == <<>>

\* bool(d.get(key)) for a dict of dicts
HasEntry(d, key) == key \in DOMAIN d /\ d[key] # EmptyDict

\* round(a, k)
Round(a, k) ==
    IF IsNaN(a) THEN NaN
    ELSE Rat((IF a[1] < 0 THEN -1 ELSE 1) * RoundScaled(a, k), Pow10(k))

\* The price source, seen from run_technical_analysis: the fetch of a symbol is
\* [status, bars, close, evaluated]: "ok" with `bars` rows left after
\* cleaning and last close `close`, "empty" (no data) or "error" (the fetch
\* raises, which get_historical_data catches).  The default periods need 45
\* bars, so the three indicator results of a long enough series are not
\* computed from the bars here: `evaluated` holds them.
HistoricalBars(fetch) == IF fetch.status = "ok" THEN fetch.bars ELSE 0

\* analyze_symbol on the bars of one symbol: None below min_data_points
AnalyzeBars(self, symbol, fetch) ==
    IF HistoricalBars(fetch) < self.min_data_points THEN None
    ELSE LET overall == _combine_signals(fetch.evaluated)
         IN  [symbol |-> symbol, datetime |-> "latest",
              current_price |-> fetch.close, indicators |-> fetch.evaluated,
              overall_signal |-> overall.signal,
              overall_confidence |-> overall.confidence,
              recommendation |-> overall.recommendation]

\* lines 108-125: one analysis result as a JSON-serializable dict
TechnicalJson(result) ==
    [symbol |-> result.symbol, current_price |-> result.current_price,
     overall_signal |-> result.overall_signal,
     overall_confidence |-> result.overall_confidence,
     recommendation |-> result.recommendation, datetime |-> result.datetime,
     indicators |->
         [i \in DOMAIN result.indicators |->
             [name |-> result.indicators[i].name,
              signal |-> result.indicators[i].signal,
              value |-> result.indicators[i].value,
              confidence |-> result.indicators[i].confidence,
              description |-> result.indicators[i].description]]]

run_technical_analysis(self, syms, fetched) ==
    LET asked == {syms[i] : i \in DOMAIN syms}
        analysed == {sym \in asked : AnalyzeBars(self, sym, fetched[sym]) # None}
    IN  IF \A sym \in asked : HistoricalBars(fetched[sym]) = 0
        THEN [error |-> ErrorText("No historical data retrieved"), results |-> EmptyDict]
        ELSE [error |-> None,
              results |-> [sym \in analysed |->
                              TechnicalJson(AnalyzeBars(self, sym, fetched[sym]))]]

\* lines 149-162: one cleaned row as a JSON-serializable dict
SemanticJson(row) ==
    [symbol |-> row.symbol, news_count |-> row.news_count,
     overall_sentiment |-> row.overall_sentiment,
     weighted_sentiment_avg |-> row.weighted_sentiment_avg,
     positive_ratio |-> row.positive_ratio, negative_ratio |-> row.negative_ratio,
     neutral_ratio |-> row.neutral_ratio,
     average_confidence |-> row.average_confidence,
     sentiment_signal |-> row.sentiment_signal,
     confidence_normalized |-> row.confidence_normalized]

run_semantic_analysis(syms, fetched) ==
    LET semantic == process_semantic_analysis(syms, fetched)
        cleaned_results == clean_data_for_downstream(semantic.rows)
    IN  IF semantic.raised
        THEN [error |-> ErrorText("'list' object has no attribute 'get'"), results |-> EmptyDict]
        ELSE IF semantic.rows = <<>>
        THEN [error |-> ErrorText("No semantic data retrieved"), results |-> EmptyDict]
        ELSE [error |-> None,
              results |->
                  [sym \in {cleaned_results[i].symbol : i \in DOMAIN cleaned_results} |->
                      SemanticJson(cleaned_results[
                          CHOOSE i \in DOMAIN cleaned_results :
                              /\ cleaned_results[i].symbol = sym
                              /\ \A j \in DOMAIN cleaned_results :
                                    cleaned_results[j].symbol = sym => j <= i])]]

Whitespace == {" ", "\t", "\n", "\r"}

\* str.strip()
RECURSIVE Strip(_)
Strip(str) ==
    IF str = "" THEN ""
    ELSE IF SubSeq(str, 1, 1) \in Whitespace THEN Strip(SubSeq(str, 2, Len(str)))
    ELSE IF SubSeq(str, Len(str), Len(str)) \in Whitespace
    THEN Strip(SubSeq(str, 1, Len(str) - 1))
    ELSE str

\* str.lower() on the signal names
LowerSignal(name) ==
    IF name = "BUY" THEN "buy"
    ELSE IF name = "SELL" THEN "sell"
    ELSE IF name = "HOLD" THEN "hold"
    ELSE IF name = "NEUTRAL" THEN "neutral"
    ELSE name

\* lines 206-210: the fallback insight
FallbackInsight(symbol, technical_data, semantic_data) ==
    LET trend == Get(technical_data, "overall_signal", "NEUTRAL")
        score == Get(semantic_data, "weighted_sentiment_avg", RatZero)
        sentiment == IF RatLT(RatZero, score) THEN "positive"
                     ELSE IF RatLT(score, RatZero) THEN "negative"
                     ELSE "neutral"
    IN  "Based on technical and semantic analysis, " \o symbol \o " shows "
        \o LowerSignal(trend) \o " momentum with " \o sentiment
        \o " market sentiment. Current technical indicators suggest "
        \o LowerSignal(trend) \o " bias while news sentiment analysis indicates "
        \o sentiment \o " market perception."

\* The narrative generator: the call is [status, content]: "text" (a reply
\* whose message content is `content`), "none" (a reply whose content is None,
\* on which .strip() raises) or "error" (the client or the call raises).
generate_ai_insight(symbol, technical_data, semantic_data, current_price, call) ==
    IF call.status = "text" THEN Strip(call.content)
    ELSE FallbackInsight(symbol, technical_data, semantic_data)

\* next((ind for ind in indicators if ind['name'] == name), None)
FindIndicator(inds, name) ==
    IF \E i \in DOMAIN inds : inds[i].name = name
    THEN inds[CHOOSE i \in DOMAIN inds :
                 inds[i].name = name /\ \A j \in DOMAIN inds : inds[j].name = name => i <= j]
    ELSE None

TrendLabel(overall_signal) ==
    IF overall_signal = "BUY" THEN "Bullish"
    ELSE IF overall_signal = "SELL" THEN "Bearish"
    ELSE "Neutral"

MacdLabel(macd_indicator) ==
    IF macd_indicator # None /\ macd_indicator.signal = "BUY" THEN "Buy Signal"
    ELSE IF macd_indicator # None /\ macd_indicator.signal = "SELL" THEN "Sell Signal"
    ELSE "Neutral"

SentimentLabel(sentiment_score) ==
    IF RatLT(Rat(1, 10), sentiment_score) THEN "Positive"
    ELSE IF RatLT(sentiment_score, Rat(-1, 10)) THEN "Negative"
    ELSE "Neutral"

NewsScore(positive_ratio, confidence) ==
    RatMin(RatInt(10),
           RatMax(RatZero,
                  RatDiv(RatAdd(RatMul(positive_ratio, RatInt(10)),
                                RatMul(confidence, RatInt(5))),
                         Rat(3, 2))))

BuzzLevel(news_count) ==
    IF news_count > 20 THEN "High" ELSE IF news_count > 10 THEN "Medium" ELSE "Low"

\* lines 263-274 with the tiers split at >= 70
AnalystRating_NonStrict(overall_signal, overall_confidence) ==
    IF overall_signal = "BUY" /\ RatLE(RatInt(70), overall_confidence) THEN "Strong Buy"
    ELSE IF overall_signal = "BUY" THEN "Buy"
    ELSE IF overall_signal = "SELL" /\ RatLE(RatInt(70), overall_confidence)
    THEN "Strong Sell"
    ELSE IF overall_signal = "SELL" THEN "Sell"
    ELSE "Hold"

\* lines 263-274
AnalystRating(overall_signal, overall_confidence) ==
    IF overall_signal = "BUY" /\ RatLT(RatInt(70), overall_confidence) THEN "Strong Buy"
    ELSE IF overall_signal = "BUY" THEN "Buy"
    ELSE IF overall_signal = "SELL" /\ RatLT(RatInt(70), overall_confidence)
    THEN "Strong Sell"
    ELSE IF overall_signal = "SELL" THEN "Sell"
    ELSE "Hold"

format_for_frontend(symbol, technical, semantic, call) ==
    LET tech_data == Get(technical, symbol, EmptyDict)
        sem_data == Get(semantic, symbol, EmptyDict)
        current_price == Get(tech_data, "current_price", RatZero)
        inds == Get(tech_data, "indicators", <<>>)
        rsi_indicator == FindIndicator(inds, "RSI")
        overall_signal == Get(tech_data, "overall_signal", "HOLD")
    IN  [stock |-> [symbol |-> symbol, price |-> current_price],
         technicalAnalysis |->
             [trend |-> TrendLabel(overall_signal),
              support |-> Round(RatMul(current_price, Rat(95, 100)), 2),
              resistance |-> Round(RatMul(current_price, Rat(105, 100)), 2),
              rsi |-> IF rsi_indicator # None THEN Round(rsi_indicator.value, 1)
                      ELSE RatInt(50),
              macd |-> MacdLabel(FindIndicator(inds, "MACD"))],
         semanticAnalysis |->
             [sentiment |->
                  SentimentLabel(Get(sem_data, "weighted_sentiment_avg", RatZero)),
              newsScore |->
                  Round(NewsScore(Get(sem_data, "positive_ratio", RatZero),
                                  Get(sem_data, "average_confidence", RatZero)), 1),
              socialMediaBuzz |-> BuzzLevel(Get(sem_data, "news_count", 0)),
              analystRating |->
                  AnalystRating(overall_signal,
                                Get(tech_data, "overall_confidence", RatZero))],
         aiInsight |->
             generate_ai_insight(symbol, tech_data, sem_data, current_price, call)]

\* lines 327-336
DefaultTechnicalData ==
    [current_price |-> RatInt(100), overall_signal |-> "HOLD",
     overall_confidence |-> RatInt(50),
     indicators |-> <<[name |-> "RSI", value |-> RatInt(50), signal |-> "HOLD"],
                      [name |-> "MACD", value |-> RatZero, signal |-> "HOLD"],
                      [name |-> "EMA", value |-> RatInt(100), signal |-> "HOLD"]>>]

\* lines 339-344
DefaultSemanticData ==
    [weighted_sentiment_avg |-> RatZero, positive_ratio |-> Rat(1, 2),
     average_confidence |-> Rat(1, 2), news_count |-> 5]

\* lines 321-344: tech_data / sem_data with the defaults filled in
WithDefault(results, symbol, default) ==
    IF HasEntry(results, symbol) THEN results
    ELSE [sym \in DOMAIN results \cup {symbol} |->
             IF sym = symbol THEN default ELSE results[sym]]

RequestSymbol == "AAPL"

VerdictIdle ==
    /\ verdict_pc = "idle"
    /\ price_source = [status |-> "empty", bars |-> 0, close |-> RatZero,
                       evaluated |-> <<>>]
    /\ narrator = [status |-> "error", content |-> ""]
    /\ technical_results = None
    /\ semantic_results = None
    /\ verdict = <<>>

ConstructIdle == ctor_args = <<>> /\ ctor_out = <<>>

BatchIdle == all_texts = <<>> /\ chunk_size = DefaultBatchSize /\ batch_out = <<>>

HistoryIdle == historical_df = <<>> /\ history_out = <<>>

FetchIdle ==
    fetcher = [pc |-> "idle", symbols |-> <<>>, source |-> <<>>, idx |-> 1, dfs |-> <<>>,
               calls |-> <<>>, out |-> <<>>]

RequestIdle == historical_data = None /\ fetched_news = None /\ responses = <<>>

RestIdle == ConstructIdle /\ BatchIdle /\ HistoryIdle /\ FetchIdle /\ RequestIdle

(***************************************************************************)
(* Specification of the combiner: any list of up to MaxIndicators results  *)
(* is handed to _combine_signals.                                          *)
(***************************************************************************)
MaxIndicators == 3

CombineIdle == indicators = <<>> /\ combined = <<>>

TestConfidences == {RatZero, RatInt(60), RatInt(150), RatInt(999)}

TestIndicatorResults ==
    {IndicatorResult("IND", s, RatZero, None, c, "") :
        s \in Signal, c \in TestConfidences}

SeqsUpTo(S, n) == UNION {[1..k -> S] : k \in 0..n}

InitCombine ==
    /\ indicators \in SeqsUpTo(TestIndicatorResults, MaxIndicators)
    /\ combined = <<>>
    /\ IndicatorsIdle
    /\ SemanticIdle
    /\ VerdictIdle
    /\ ScoresIdle
    /\ CleanIdle
    /\ RestIdle

CombineSignals ==
    /\ combined = <<>>
    /\ combined' = <<_combine_signals(indicators)>>
    /\ UNCHANGED <<indicators, indicatorVars, semanticVars, verdictVars, scoreVars,
                   cleanVars,
                   restVars>>

NextCombine == CombineSignals

SpecCombine == InitCombine /\ [][NextCombine]_vars

(***************************************************************************)
(* Specification of the indicators: an evaluator with small periods is     *)
(* handed any positive price array of up to MaxPrices points, and each of  *)
(* calculate_ema, calculate_macd and calculate_rsi is called on it.        *)
(***************************************************************************)
MaxPrices == 6

TestPrices == {RatInt(1), RatInt(2), RatInt(3)}

TestTechnicalIndicators ==
    {TechnicalIndicators(3, 2, 3, 2, 2, RatInt(30), RatInt(70)),
     TechnicalIndicators(2, 2, 4, 1, 3, RatInt(25), RatInt(75))}

\* a flat series of `bars` closes at 100.0 whose last close is `last`
FlatSeries(bars, last) ==
    [i \in 1..bars |-> IF i = bars THEN last ELSE RatInt(100)]

MaxBars == 46

TestLastCloses == {RatInt(100), RatInt(50), RatInt(250), RatInt(400)}

\* either small periods on any short series, or the default periods on a flat
\* series with any last close
InitIndicators ==
    /\ \/ /\ ti \in TestTechnicalIndicators
          /\ close_prices \in SeqsUpTo(TestPrices, MaxPrices)
       \/ /\ ti = DefaultTechnicalIndicators
          /\ \E bars \in 0..MaxBars : \E last \in TestLastCloses :
                close_prices = FlatSeries(bars, last)
    /\ ema_out = <<>>
    /\ macd_out = <<>>
    /\ rsi_out = <<>>
    /\ analysis_out = <<>>
    /\ CombineIdle
    /\ SemanticIdle
    /\ VerdictIdle
    /\ ScoresIdle
    /\ CleanIdle
    /\ RestIdle

CalculateEma ==
    /\ ema_out = <<>>
    /\ ema_out' = <<calculate_ema(ti, close_prices)>>
    /\ UNCHANGED <<ti, close_prices, macd_out, rsi_out, analysis_out, combineVars,
                   semanticVars, verdictVars, scoreVars, cleanVars,
                   restVars>>

CalculateMacd ==
    /\ macd_out = <<>>
    /\ macd_out' = <<calculate_macd(ti, close_prices)>>
    /\ UNCHANGED <<ti, close_prices, ema_out, rsi_out, analysis_out, combineVars,
                   semanticVars, verdictVars, scoreVars, cleanVars,
                   restVars>>

CalculateRsi ==
    /\ rsi_out = <<>>
    /\ rsi_out' = <<calculate_rsi(ti, close_prices)>>
    /\ UNCHANGED <<ti, close_prices, ema_out, macd_out, analysis_out, combineVars,
                   semanticVars, verdictVars, scoreVars, cleanVars,
                   restVars>>

AnalyzeSymbol ==
    /\ analysis_out = <<>>
    /\ analysis_out' = <<analyze_symbol(ti, close_prices)>>
    /\ UNCHANGED <<ti, close_prices, ema_out, macd_out, rsi_out, combineVars,
                   semanticVars, verdictVars, scoreVars, cleanVars,
                   restVars>>

NextIndicators == CalculateEma \/ CalculateMacd \/ CalculateRsi \/ AnalyzeSymbol

SpecIndicators == InitIndicators /\ [][NextIndicators]_vars

(***************************************************************************)
(* Specification of analyze_symbol over parameter sets with positive       *)
(* periods: any evaluator whose periods are drawn from the sets below is   *)
(* handed a series of up to MaxSeries closes, flat at 100.0 up to its last *)
(* close.                                                                  *)
(***************************************************************************)
MaxSeries == 16

PositivePeriods == {1, 2, 3}

\* (macd_fast, macd_slow, macd_signal)
PositiveMacdPeriods ==
    {<<2, 2, 1>>, <<2, 3, 2>>, <<2, 3, 1>>, <<1, 3, 2>>, <<2, 1, 1>>,
     <<5, 3, 2>>, <<14, 2, 1>>}

InitAnalyze ==
    /\ \E ema \in PositivePeriods : \E macd \in PositiveMacdPeriods :
       \E rsi \in PositivePeriods :
          ti = TechnicalIndicators(ema, macd[1], macd[2], macd[3], rsi,
                                   RatInt(30), RatInt(70))
    /\ \E bars \in 0..MaxSeries : \E last \in TestLastCloses :
          close_prices = FlatSeries(bars, last)
    /\ ema_out = <<>>
    /\ macd_out = <<>>
    /\ rsi_out = <<>>
    /\ analysis_out = <<>>
    /\ CombineIdle
    /\ SemanticIdle
    /\ VerdictIdle
    /\ ScoresIdle
    /\ CleanIdle
    /\ RestIdle

NextAnalyze == AnalyzeSymbol

SpecAnalyze == InitAnalyze /\ [][NextAnalyze]_vars

(***************************************************************************)
(* Specification of the semantic pipeline: process_semantic_analysis is    *)
(* called for one or two symbols, each with up to MaxNews articles.        *)
(***************************************************************************)
MaxNews == 2

Text(raises, response) == [raises |-> raises, response |-> response]

PositiveText ==
    Text(FALSE, <<<<"positive", Rat(4, 5)>>, <<"negative", Rat(1, 20)>>,
                  <<"neutral", Rat(3, 20)>>>>)

NegativeText ==
    Text(FALSE, <<<<"neutral", Rat(3, 10)>>, <<"negative", Rat(3, 5)>>,
                  <<"positive", Rat(1, 10)>>>>)

FailingText == Text(TRUE, <<>>)

TestTexts == {PositiveText, NegativeText, FailingText}

\* classifier outcomes whose weighted sentiment is 0.05 and -0.05
MildlyPositiveText ==
    Text(FALSE, <<<<"positive", Rat(7, 20)>>, <<"negative", Rat(3, 10)>>,
                  <<"neutral", Rat(7, 20)>>>>)

MildlyNegativeText ==
    Text(FALSE, <<<<"positive", Rat(3, 10)>>, <<"negative", Rat(7, 20)>>,
                  <<"neutral", Rat(7, 20)>>>>)

TestFetches ==
    {[status |-> "ok", articles |-> a] : a \in SeqsUpTo(TestTexts, MaxNews)}
    \cup {[status |-> "ok", articles |-> <<text>>] :
             text \in {MildlyPositiveText, MildlyNegativeText}}
    \cup {[status |-> "error", articles |-> <<>>], [status |-> "list", articles |-> <<>>]}

SymbolSet == {AllSymbols[i] : i \in DOMAIN AllSymbols}

InitSemantic ==
    /\ symbols \in {SubSeq(AllSymbols, 1, k) : k \in 1..Len(AllSymbols)}
    /\ news \in [SymbolSet -> TestFetches]
    /\ \A i \in DOMAIN AllSymbols : i > Len(symbols) => news[AllSymbols[i]] = NoFetch
    /\ semantic_out = <<>>
    /\ CombineIdle
    /\ IndicatorsIdle
    /\ VerdictIdle
    /\ ScoresIdle
    /\ CleanIdle
    /\ RestIdle

ProcessSemanticAnalysis ==
    /\ semantic_out = <<>>
    /\ semantic_out' = <<process_semantic_analysis(symbols, news)>>
    /\ UNCHANGED <<symbols, news, combineVars, indicatorVars, verdictVars, scoreVars,
                   cleanVars,
                   restVars>>

NextSemantic == ProcessSemanticAnalysis

SpecSemantic == InitSemantic /\ [][NextSemantic]_vars

(***************************************************************************)
(* Specification of the aggregation: calculate_sentiment_scores is called  *)
(* on any list of up to MaxDocuments classification results.               *)
(***************************************************************************)
MaxDocuments == 3

\* the three results of test_calculate_sentiment_scores_mixed_sentiments, a
\* result whose class scores do not sum to 1, and the neutral result of a
\* failed batch
TestDocuments ==
    {SentimentResult("positive", Rat(4, 5), Rat(4, 5), Rat(1, 10), Rat(1, 10), Rat(7, 10)),
     SentimentResult("negative", Rat(3, 5), Rat(1, 5), Rat(3, 5), Rat(1, 5), Rat(-2, 5)),
     SentimentResult("neutral", Rat(7, 10), Rat(3, 10), Rat(1, 5), Rat(7, 10), Rat(1, 10)),
     SentimentResult("negative", Rat(2, 5), Rat(3, 10), Rat(2, 5), Rat(1, 5), Rat(-1, 10)),
     NeutralResult}

InitScores ==
    /\ documents \in SeqsUpTo(TestDocuments, MaxDocuments)
    /\ scores_out = <<>>
    /\ CombineIdle
    /\ IndicatorsIdle
    /\ SemanticIdle
    /\ VerdictIdle
    /\ CleanIdle
    /\ RestIdle

\* the call leaves the list it was given as it is
CalculateSentimentScores ==
    /\ scores_out = <<>>
    /\ scores_out' = <<calculate_sentiment_scores(documents)>>
    /\ UNCHANGED <<documents, combineVars, indicatorVars, semanticVars, verdictVars,
                   cleanVars,
                   restVars>>

NextScores == CalculateSentimentScores

SpecScores == InitScores /\ [][NextScores]_vars

(***************************************************************************)
(* clean_data_for_downstream on frames of one or two rows.  The rows are   *)
(* those of the repository's tests, rows on the thresholds 0.1 and -0.1,   *)
(* rows of confidence 0, a row of missing cells and a row of negative      *)
(* confidence; the frame holds any subset of the required columns.         *)
(***************************************************************************)
MaxRows == 2

SemanticRow(symbol, overall, weighted, positive, negative, confidence) ==
    [symbol |-> symbol, overall_sentiment |-> overall,
     weighted_sentiment_avg |-> weighted, positive_ratio |-> positive,
     negative_ratio |-> negative, average_confidence |-> confidence]

TestRows ==
    {SemanticRow("AAPL", Rat(1, 2), Rat(2, 5), Rat(3, 5), Rat(1, 5), Rat(4, 5)),
     SemanticRow("AAPL", Rat(1, 20), Rat(1, 20), Rat(2, 5), Rat(3, 10), Rat(3, 5)),
     SemanticRow("AAPL", Rat(-3, 10), Rat(-1, 5), Rat(1, 5), Rat(7, 10), Rat(4, 5)),
     SemanticRow("MSFT", Rat(1, 10), Rat(1, 10), Rat(2, 5), Rat(3, 10), Rat(2, 5)),
     SemanticRow("MSFT", Rat(-1, 10), Rat(-1, 10), Rat(3, 10), Rat(2, 5), RatZero),
     SemanticRow("GOOGL", Rat(1, 5), Rat(3, 20), Rat(1, 2), Rat(3, 10), RatZero),
     SemanticRow("GOOGL", NaN, NaN, NaN, NaN, NaN),
     SemanticRow("TSLA", Rat(-1, 5), Rat(-3, 20), Rat(3, 10), Rat(1, 2), Rat(-1, 5))}

\* the frame of the given rows holding the given columns only
Frame(rows, columns) == [i \in DOMAIN rows |-> [c \in columns |-> rows[i][c]]]

InitClean ==
    /\ \E rows \in SeqsUpTo(TestRows, MaxRows) \ {<<>>}, columns \in SUBSET RequiredColumns :
          semantic_df = Frame(rows, columns)
    /\ cleaned_out = <<>>
    /\ CombineIdle
    /\ IndicatorsIdle
    /\ SemanticIdle
    /\ VerdictIdle
    /\ ScoresIdle
    /\ RestIdle

\* the columns are added to the frame the caller handed in, which is also
\* the frame returned
CleanDataForDownstream ==
    /\ cleaned_out = <<>>
    /\ semantic_df' = clean_data_for_downstream(semantic_df)
    /\ cleaned_out' = <<semantic_df'>>
    /\ UNCHANGED <<combineVars, indicatorVars, semanticVars, verdictVars, scoreVars,
                   restVars>>

NextClean == CleanDataForDownstream

SpecClean == InitClean /\ [][NextClean]_vars


(***************************************************************************)
(* Construction of the indicator evaluator: TechnicalIndicators(...) is    *)
(* called with valid and with invalid lookback periods.                    *)
(***************************************************************************)
CoreIdle ==
    /\ CombineIdle
    /\ IndicatorsIdle
    /\ SemanticIdle
    /\ VerdictIdle
    /\ ScoresIdle
    /\ CleanIdle

TestPeriods == {-5, 0, 1, 14, 20}

TestMacdPeriods == {<<12, 26, 9>>, <<0, 26, 9>>, <<12, -1, 9>>, <<12, 26, 0>>, <<3, 5, 2>>}

TestRsiPeriods == {-3, 0, 14}

\* __init__ (lines 47-76): the arguments are stored and min_data_points is
\* computed; no statement of it raises
Construct(args) ==
    [raised |-> FALSE,
     self |-> TechnicalIndicators(args.ema_period, args.macd_fast, args.macd_slow,
                                  args.macd_signal, args.rsi_period,
                                  args.rsi_oversold, args.rsi_overbought)]

InitConstruct ==
    /\ \E ema \in TestPeriods, macd \in TestMacdPeriods, rsi \in TestRsiPeriods :
          ctor_args = [ema_period |-> ema, macd_fast |-> macd[1], macd_slow |-> macd[2],
                       macd_signal |-> macd[3], rsi_period |-> rsi,
                       rsi_oversold |-> RatInt(30), rsi_overbought |-> RatInt(70)]
    /\ ctor_out = <<>>
    /\ CoreIdle
    /\ BatchIdle
    /\ HistoryIdle
    /\ FetchIdle
    /\ RequestIdle

ConstructIndicators ==
    /\ ctor_out = <<>>
    /\ ctor_out' = <<Construct(ctor_args)>>
    /\ UNCHANGED <<ctor_args, coreVars, batchVars, historyVars, fetchVars, requestVars>>

NextConstruct == ConstructIndicators

SpecConstruct == InitConstruct /\ [][NextConstruct]_vars


(***************************************************************************)
(* analyze_sentiment_batch on up to MaxTexts texts in batches of 1 to      *)
(* MaxChunk.  A text is the classifier's answer to it: the call raises,    *)
(* returns scores, or returns an empty response.                           *)
(***************************************************************************)
MaxTexts == 4

MaxChunk == 3

EmptyResponseText == Text(FALSE, <<>>)

InitBatch ==
    /\ all_texts \in SeqsUpTo(TestTexts \cup {EmptyResponseText}, MaxTexts)
    /\ chunk_size \in 1..MaxChunk
    /\ batch_out = <<>>
    /\ CoreIdle
    /\ ConstructIdle
    /\ HistoryIdle
    /\ FetchIdle
    /\ RequestIdle

\* the call builds a new list and leaves its arguments as they are
AnalyzeSentimentBatch ==
    /\ batch_out = <<>>
    /\ batch_out' = <<analyze_sentiment_batch(all_texts, chunk_size)>>
    /\ UNCHANGED <<all_texts, chunk_size, coreVars, constructVars, historyVars,
                   fetchVars, requestVars>>

NextBatch == AnalyzeSentimentBatch

SpecBatch == InitBatch /\ [][NextBatch]_vars


(***************************************************************************)
(* _clean_historical_data on frames of up to MaxHistory rows: bars of the  *)
(* repository's test, and bars on and beyond each limit of the mask.       *)
(***************************************************************************)
MaxHistory == 2

Bar(open, high, low, close, volume) == [open |-> RatInt(open), high |-> RatInt(high), low |-> RatInt(low), close |-> RatInt(close), volume |-> RatInt(volume)]

TestBarValues ==
    {Bar(200, 210, 198, 205, 10000),
     Bar(0, 0, 0, 0, 20000),
     Bar(205, 208, 204, 207, -5),
     Bar(100, 100, 100, 100, 0),
     Bar(100, 95, 105, 100, 1000),
     Bar(100, 110, 95, -1, 1000)}

TestDatetimes == {1, 2}

TestHistoryRows ==
    {[symbol |-> sym, datetime |-> stamp, open |-> bar.open, high |-> bar.high, low |-> bar.low, close |-> bar.close, volume |-> bar.volume] :
        sym \in SymbolSet, stamp \in TestDatetimes, bar \in TestBarValues}

InitHistory ==
    /\ historical_df \in SeqsUpTo(TestHistoryRows, MaxHistory)
    /\ history_out = <<>>
    /\ CoreIdle
    /\ ConstructIdle
    /\ BatchIdle
    /\ FetchIdle
    /\ RequestIdle

\* sort_values and the mask build new frames: the frame handed in is not changed
CleanHistoricalData ==
    /\ history_out = <<>>
    /\ history_out' = <<_clean_historical_data(historical_df)>>
    /\ UNCHANGED <<historical_df, coreVars, constructVars, batchVars, fetchVars,
                   requestVars>>

NextHistory == CleanHistoricalData

SpecHistory == InitHistory /\ [][NextHistory]_vars


(***************************************************************************)
(* get_historical_data over a list of up to MaxFetch symbols, each fetch   *)
(* returning data, no data, or failing.  fetcher.calls lists the calls     *)
(* made to the price service ("get" with the symbol) and to time.sleep.    *)
(***************************************************************************)
MaxFetch == 3

FetchedBars(first, second) ==
    <<[datetime |-> 2] @@ first, [datetime |-> 1] @@ second>>

TestFetchOutcomes ==
    {[status |-> "data",
      rows |-> FetchedBars(Bar(200, 210, 198, 205, 10000), Bar(100, 100, 100, 100, 0))],
     [status |-> "data",
      rows |-> FetchedBars(Bar(0, 0, 0, 0, 20000), Bar(205, 208, 204, 207, -5))],
     [status |-> "empty", rows |-> <<>>],
     [status |-> "http_error", rows |-> <<>>],
     [status |-> "api_error", rows |-> <<>>]}

InitFetch ==
    /\ \E syms \in SeqsUpTo(SymbolSet, MaxFetch), source \in [SymbolSet -> TestFetchOutcomes] :
          fetcher = [pc |-> "loop", symbols |-> syms, source |-> source, idx |-> 1,
                     dfs |-> <<>>, calls |-> <<>>, out |-> <<>>]
    /\ CoreIdle
    /\ ConstructIdle
    /\ BatchIdle
    /\ HistoryIdle
    /\ RequestIdle

\* lines 96-106: one iteration up to the pause
FetchSymbol ==
    /\ fetcher.pc = "loop"
    /\ fetcher.idx <= Len(fetcher.symbols)
    /\ LET sym == fetcher.symbols[fetcher.idx]
           fetch == fetcher.source[sym]
       IN  fetcher' =
               [fetcher EXCEPT
                   !.calls = Append(@, <<"get", sym>>),
                   !.dfs = AfterFetch(@, sym, fetch),
                   !.pc = IF PauseFollows(fetch, fetcher.idx, Len(fetcher.symbols))
                          THEN "pause" ELSE "loop",
                   !.idx = IF PauseFollows(fetch, fetcher.idx, Len(fetcher.symbols))
                           THEN @ ELSE @ + 1]
    /\ UNCHANGED <<coreVars, constructVars, batchVars, historyVars, requestVars>>

\* lines 109-110
Pause ==
    /\ fetcher.pc = "pause"
    /\ fetcher' = [fetcher EXCEPT !.calls = Append(@, <<"sleep">>), !.pc = "loop",
                                   !.idx = @ + 1]
    /\ UNCHANGED <<coreVars, constructVars, batchVars, historyVars, requestVars>>

\* lines 112-117
ReturnHistoricalData ==
    /\ fetcher.pc = "loop"
    /\ fetcher.idx > Len(fetcher.symbols)
    /\ fetcher' = [fetcher EXCEPT !.out = <<HistoricalResult(fetcher.dfs)>>, !.pc = "done"]
    /\ UNCHANGED <<coreVars, constructVars, batchVars, historyVars, requestVars>>

NextFetch == FetchSymbol \/ Pause \/ ReturnHistoricalData

SpecFetch == InitFetch /\ [][NextFetch]_vars

(***************************************************************************)
(* Specification of the verdict: get_complete_verdict is called for one    *)
(* symbol, whatever the price source, the news source, the classifier and  *)
(* the narrative generator do.  The classifier's outcome is part of each   *)
(* article (see Text).                                                     *)
(***************************************************************************)
TestBars == {30, 60}

TestCloses == {RatInt(150), Rat(24691, 200)}

Evaluated(ema, macd, rsi, rsi_value, confidence) ==
    <<IndicatorResult("EMA", ema, RatInt(149), RatInt(150), confidence, ""),
      IndicatorResult("MACD", macd, Rat(1, 2), Rat(1, 4), confidence, ""),
      IndicatorResult("RSI", rsi, rsi_value, None, confidence, "")>>

TestEvaluated ==
    {Evaluated("BUY", "BUY", "BUY", Rat(2345, 100), RatInt(80)),
     Evaluated("SELL", "SELL", "HOLD", Rat(205, 4), RatInt(90)),
     Evaluated("BUY", "SELL", "HOLD", RatInt(50), RatInt(40)),
     Evaluated("HOLD", "HOLD", "HOLD", RatInt(50), RatInt(50)),
     Evaluated("BUY", "BUY", "BUY", RatInt(20), RatInt(70)),
     Evaluated("SELL", "SELL", "SELL", RatInt(80), RatInt(70)),
     Evaluated("SELL", "SELL", "SELL", RatInt(85), RatInt(80)),
     Evaluated("BUY", "BUY", "HOLD", RatInt(45), RatInt(90))}

TestPriceSources ==
    {[status |-> "ok", bars |-> b, close |-> c, evaluated |-> e] :
        b \in TestBars, c \in TestCloses, e \in TestEvaluated}
    \cup {[status |-> st, bars |-> 0, close |-> RatZero, evaluated |-> <<>>] :
            st \in {"empty", "error"}}

TestNarrations ==
    {[status |-> "text", content |-> c] :
        c \in {"Outlook is stable.", "  Outlook is stable.\n", "", " \n\t"}}
    \cup {[status |-> st, content |-> ""] : st \in {"none", "error"}}

InitVerdict ==
    /\ verdict_pc = "start"
    /\ price_source \in TestPriceSources
    /\ narrator \in TestNarrations
    /\ symbols = <<RequestSymbol>>
    /\ news \in [SymbolSet -> TestFetches]
    /\ \A sym \in SymbolSet \ {RequestSymbol} : news[sym] = NoFetch
    /\ semantic_out = <<>>
    /\ technical_results = None
    /\ semantic_results = None
    /\ verdict = <<>>
    /\ CombineIdle
    /\ IndicatorsIdle
    /\ ScoresIdle
    /\ CleanIdle
    /\ RestIdle

\* lines 308-312
RunTechnicalAnalysis ==
    /\ verdict_pc = "start"
    /\ technical_results' =
           run_technical_analysis(DefaultTechnicalIndicators, symbols,
                                  [sym \in SymbolSet |-> price_source])
    /\ verdict_pc' = "technical"
    /\ UNCHANGED <<price_source, narrator, semantic_results, verdict,
                   combineVars, indicatorVars, semanticVars,
                   scoreVars, cleanVars,
                   restVars>>

\* lines 316-319
RunSemanticAnalysis ==
    /\ verdict_pc = "technical"
    /\ semantic_results' = run_semantic_analysis(symbols, news)
    /\ verdict_pc' = "semantic"
    /\ UNCHANGED <<price_source, narrator, technical_results, verdict,
                   combineVars, indicatorVars, semanticVars,
                   scoreVars, cleanVars,
                   restVars>>

\* lines 322-350
FormatForFrontend ==
    /\ verdict_pc = "semantic"
    /\ verdict' =
           <<format_for_frontend(
                 symbols[1],
                 WithDefault(technical_results.results, symbols[1], DefaultTechnicalData),
                 WithDefault(semantic_results.results, symbols[1], DefaultSemanticData),
                 narrator)>>
    /\ verdict_pc' = "returned"
    /\ UNCHANGED <<price_source, narrator, technical_results, semantic_results,
                   combineVars, indicatorVars, semanticVars,
                   scoreVars, cleanVars,
                   restVars>>

NextVerdict == RunTechnicalAnalysis \/ RunSemanticAnalysis \/ FormatForFrontend

SpecVerdict == InitVerdict /\ [][NextVerdict]_vars

(***************************************************************************)
(* Specification of verdict requests served one after the other by one     *)
(* AIVerdictSystem: within a request the steps of the technical analysis   *)
(* (fetch the history, analyse it) and of the semantic analysis (fetch the *)
(* news, aggregate it) are taken in any interleaving that respects each    *)
(* analysis's own order; the verdict is formatted once both are done.      *)
(* The only state the steps share is the object built by __init__, which   *)
(* none of them writes: ti is read by the analysis step alone.  Every      *)
(* request meets collaborators of its own.                                 *)
(***************************************************************************)
MaxRequests == 2

\* the collaborators' answers to one request
TestRequests ==
    {[price_source |-> price, news |-> fetch, narrator |-> call] :
        price \in {[status |-> "ok", bars |-> 60, close |-> RatInt(150),
                    evaluated |-> Evaluated("BUY", "BUY", "BUY", Rat(2345, 100), RatInt(80))],
                   [status |-> "ok", bars |-> 60, close |-> Rat(24691, 200),
                    evaluated |-> Evaluated("SELL", "SELL", "HOLD", Rat(205, 4), RatInt(90))],
                   [status |-> "error", bars |-> 0, close |-> RatZero, evaluated |-> <<>>]},
        fetch \in {[status |-> "ok", articles |-> <<PositiveText>>],
                   [status |-> "ok", articles |-> <<NegativeText, FailingText>>],
                   [status |-> "error", articles |-> <<>>]},
        call \in {[status |-> "text", content |-> "Outlook is stable."],
                  [status |-> "error", content |-> ""]}}

\* mutant: a local still holds what the previous call left in it
EntryValue_Kept(previous) == previous

\* a local of get_complete_verdict at entry to the call: unbound, whatever
\* the previous call left
EntryValue(previous) == None

\* lines 300-350 run in program order on the answers of the collaborators
get_complete_verdict(self, symbol, price, fetches, call) ==
    format_for_frontend(
        symbol,
        WithDefault(run_technical_analysis(self, <<symbol>>,
                                           [sym \in SymbolSet |-> price]).results,
                    symbol, DefaultTechnicalData),
        WithDefault(run_semantic_analysis(<<symbol>>, fetches).results,
                    symbol, DefaultSemanticData),
        call)

NewsOf(fetch) ==
    [sym \in SymbolSet |-> IF sym = RequestSymbol THEN fetch ELSE NoFetch]

InitRequests ==
    /\ verdict_pc = "start"
    /\ \E request \in TestRequests :
          /\ price_source = request.price_source
          /\ news = NewsOf(request.news)
          /\ narrator = request.narrator
    /\ symbols = <<RequestSymbol>>
    /\ semantic_out = <<>>
    /\ technical_results = None
    /\ semantic_results = None
    /\ verdict = <<>>
    /\ CombineIdle
    /\ IndicatorsIdle
    /\ ScoresIdle
    /\ CleanIdle
    /\ RestIdle

\* lines 92-96: the history is fetched
FetchHistoricalData ==
    /\ verdict_pc \in {"start", "semantic"}
    /\ historical_data = None
    /\ historical_data' = <<[sym \in SymbolSet |-> price_source]>>
    /\ UNCHANGED <<verdict_pc, price_source, narrator, technical_results,
                   semantic_results, verdict, combineVars, indicatorVars,
                   semanticVars, scoreVars, cleanVars, constructVars, batchVars,
                   historyVars, fetchVars, fetched_news, responses>>

\* lines 98-131: the fetched history is analysed
AnalyzePortfolio ==
    /\ verdict_pc \in {"start", "semantic"}
    /\ historical_data # None
    /\ technical_results' = run_technical_analysis(ti, symbols, historical_data[1])
    /\ verdict_pc' = IF verdict_pc = "start" THEN "technical" ELSE "both"
    /\ UNCHANGED <<price_source, narrator, semantic_results, verdict,
                   combineVars, indicatorVars, semanticVars, scoreVars, cleanVars,
                   constructVars, batchVars, historyVars, fetchVars, requestVars>>

\* semantic_analyzer.py lines 269-271: the news is fetched
FetchNews ==
    /\ verdict_pc \in {"start", "technical"}
    /\ fetched_news = None
    /\ fetched_news' = <<news>>
    /\ UNCHANGED <<verdict_pc, price_source, narrator, technical_results,
                   semantic_results, verdict, combineVars, indicatorVars,
                   semanticVars, scoreVars, cleanVars, constructVars, batchVars,
                   historyVars, fetchVars, historical_data, responses>>

\* lines 133-165: the fetched news is classified, aggregated and cleaned
AggregateSentiment ==
    /\ verdict_pc \in {"start", "technical"}
    /\ fetched_news # None
    /\ semantic_results' = run_semantic_analysis(symbols, fetched_news[1])
    /\ verdict_pc' = IF verdict_pc = "start" THEN "semantic" ELSE "both"
    /\ UNCHANGED <<price_source, narrator, technical_results, verdict,
                   combineVars, indicatorVars, semanticVars, scoreVars, cleanVars,
                   constructVars, batchVars, historyVars, fetchVars, requestVars>>

\* lines 322-347
FormatVerdict ==
    /\ verdict_pc = "both"
    /\ verdict' =
           <<format_for_frontend(
                 symbols[1],
                 WithDefault(technical_results.results, symbols[1], DefaultTechnicalData),
                 WithDefault(semantic_results.results, symbols[1], DefaultSemanticData),
                 narrator)>>
    /\ verdict_pc' = "returned"
    /\ UNCHANGED <<price_source, narrator, technical_results, semantic_results,
                   combineVars, indicatorVars, semanticVars, scoreVars, cleanVars,
                   constructVars, batchVars, historyVars, fetchVars, requestVars>>

\* lines 349-350: the verdict is returned to the caller
ReturnVerdict ==
    /\ verdict_pc = "returned"
    /\ responses' = Append(responses,
                           [request |-> [price_source |-> price_source,
                                         news |-> news[RequestSymbol],
                                         narrator |-> narrator],
                            verdict |-> verdict[1]])
    /\ verdict_pc' = "idle"
    /\ UNCHANGED <<price_source, narrator, technical_results, semantic_results,
                   verdict, combineVars, indicatorVars, semanticVars, scoreVars,
                   cleanVars, constructVars, batchVars, historyVars, fetchVars,
                   historical_data, fetched_news>>

\* lines 300-305: the next call of get_complete_verdict on the same object
StartRequest ==
    /\ verdict_pc = "idle"
    /\ Len(responses) < MaxRequests
    /\ \E request \in TestRequests :
          /\ price_source' = request.price_source
          /\ news' = NewsOf(request.news)
          /\ narrator' = request.narrator
    /\ historical_data' = EntryValue(historical_data)
    /\ fetched_news' = EntryValue(fetched_news)
    /\ verdict' = EntryValue(verdict)
    /\ verdict_pc' = "start"
    /\ UNCHANGED <<symbols, semantic_out, technical_results, semantic_results,
                   combineVars, indicatorVars, scoreVars, cleanVars,
                   constructVars, batchVars, historyVars, fetchVars, responses>>

NextRequests ==
    \/ FetchHistoricalData
    \/ AnalyzePortfolio
    \/ FetchNews
    \/ AggregateSentiment
    \/ FormatVerdict
    \/ ReturnVerdict
    \/ StartRequest

SpecRequests == InitRequests /\ [][NextRequests]_vars

(***************************************************************************)
(* Properties of the combiner.                                             *)
(***************************************************************************)
Votes(sig) == Cardinality({i \in DOMAIN indicators : indicators[i].signal = sig})

CombineReturned == combined # <<>>

Overall == combined[1]

\* the mean of the confidences at the positions whose signal is not HOLD
RECURSIVE SumAt(_, _)
SumAt(inds, idx) ==
    IF idx = {} THEN RatZero
    ELSE LET i == CHOOSE j \in idx : TRUE
         IN  RatAdd(inds[i].confidence, SumAt(inds, idx \ {i}))

NonHoldAt(inds) == {i \in DOMAIN inds : inds[i].signal \in {"BUY", "SELL"}}

MeanNonHold(inds) ==
    RatDiv(SumAt(inds, NonHoldAt(inds)), RatInt(Cardinality(NonHoldAt(inds))))

VoteStrength ==
    IF Votes("BUY") > Votes("SELL") THEN Rat(Votes("BUY"), Len(indicators))
    ELSE IF Votes("SELL") > Votes("BUY") THEN Rat(Votes("SELL"), Len(indicators))
    ELSE Rat(1, 2)

\* C1: with at least one BUY or SELL vote, the overall signal is BUY with the
\* text 'b/N indicators bullish' iff b > s, SELL with 's/N indicators bearish'
\* iff s > b, and HOLD with a 'Mixed signals' text iff b = s; N counts the HOLD
\* votes too.
C1_MajorityRule ==
    (CombineReturned /\ Votes("BUY") + Votes("SELL") >= 1) =>
        LET b == Votes("BUY")
            s == Votes("SELL")
            N == Len(indicators)
        IN  /\ (Overall.signal = "BUY") <=> (b > s)
            /\ (Overall.signal = "SELL") <=> (s > b)
            /\ (Overall.signal = "HOLD") <=> (b = s)
            /\ (b > s) <=> (/\ StartsWith(Overall.recommendation, "BUY")
                             /\ Contains(Overall.recommendation,
                                    ToString(b) \o "/" \o ToString(N) \o " indicators bullish"))
            /\ (s > b) <=> (/\ StartsWith(Overall.recommendation, "SELL")
                             /\ Contains(Overall.recommendation,
                                    ToString(s) \o "/" \o ToString(N) \o " indicators bearish"))
            /\ (b = s) <=> Contains(Overall.recommendation, "Mixed signals")

C1_Witness ==
    /\ CombineReturned
    /\ Votes("BUY") = 2 /\ Votes("SELL") = 1 /\ Len(indicators) = 3
    /\ Overall.signal = "BUY"
    /\ Overall.recommendation = "BUY - 2/3 indicators bullish"

\* C2: with at least one non-HOLD indicator, the returned confidence is
\* min(100, A * strength), A the mean confidence of the non-HOLD indicators and
\* strength b/N, s/N or 1/2 (tie), N counting the HOLD indicators too.
C2_ConfidenceFormula ==
    (CombineReturned /\ Votes("BUY") + Votes("SELL") >= 1) =>
        LET x == RatMul(MeanNonHold(indicators), VoteStrength)
        IN  Overall.confidence = (IF RatLT(RatInt(100), x) THEN RatInt(100) ELSE x)

C2_Witness ==
    /\ CombineReturned
    /\ Votes("BUY") = 1 /\ Votes("SELL") = 0 /\ Votes("HOLD") = 2
    /\ \E i \in DOMAIN indicators :
          indicators[i].signal = "HOLD" /\ indicators[i].confidence = RatInt(999)
    /\ \E i \in DOMAIN indicators :
          indicators[i].signal = "BUY" /\ indicators[i].confidence = RatInt(60)
    /\ Overall.confidence = RatInt(20)

\* C3: the returned confidence lies in [0,100] for every list of indicator
\* results with confidences >= 0, however far they exceed 100.
C3_ConfidenceRange ==
    CombineReturned =>
        /\ RatLE(RatZero, Overall.confidence)
        /\ RatLE(Overall.confidence, RatInt(100))

C3_Witness ==
    /\ CombineReturned
    /\ Len(indicators) = 2
    /\ \A i \in DOMAIN indicators :
          indicators[i].signal = "BUY" /\ indicators[i].confidence = RatInt(999)
    /\ Overall.confidence = RatInt(100)

C5_NoClearSignals ==
    (CombineReturned /\ Votes("BUY") + Votes("SELL") = 0) =>
        Overall = [signal |-> "HOLD", confidence |-> RatZero,
                   recommendation |-> "No clear signals from indicators"]

C5_Witness ==
    /\ CombineReturned
    /\ Len(indicators) = 2
    /\ \A i \in DOMAIN indicators :
          indicators[i].signal = "HOLD" /\ indicators[i].confidence = RatInt(150)
    /\ Overall.confidence = RatZero

C5_WitnessEmpty == CombineReturned /\ indicators = <<>> /\ Overall.signal = "HOLD"

(***************************************************************************)
(* Properties of the indicators.                                           *)
(***************************************************************************)
EmaReturned == ema_out # <<>>

MacdReturned == macd_out # <<>>

RsiReturned == rsi_out # <<>>

EmaResult == ema_out[1][2]

MacdResult == macd_out[1][2]

RsiResult == rsi_out[1][2]

MacdLine == Last(macd_out[1][1].macd)

MacdSignalLine == Last(macd_out[1][1].signal)

MacdHistogram == Last(macd_out[1][1].histogram)

MacdComputed == MacdReturned /\ Len(close_prices) >= ti.macd_slow + ti.macd_signal

\* C6: on a series of sufficient length calculate_macd returns BUY iff the last
\* main value > the last signal value and the last histogram value > 0, SELL
\* iff main < signal and histogram < 0, HOLD otherwise; the confidence is
\* min(100, |histogram| * 1000) for BUY and SELL and 0 for HOLD.
C6_MacdRule ==
    MacdComputed =>
        LET up == RatLT(MacdSignalLine, MacdLine) /\ RatLT(RatZero, MacdHistogram)
            down == RatLT(MacdLine, MacdSignalLine) /\ RatLT(MacdHistogram, RatZero)
            scaled == RatMul(RatAbs(MacdHistogram), RatInt(1000))
        IN  /\ (MacdResult.signal = "BUY") <=> up
            /\ (MacdResult.signal = "SELL") <=> down
            /\ (MacdResult.signal = "HOLD") <=> (~up /\ ~down)
            /\ MacdResult.signal \in {"BUY", "SELL"} =>
                   MacdResult.confidence =
                       (IF RatLT(RatInt(100), scaled) THEN RatInt(100) ELSE scaled)
            /\ MacdResult.signal = "HOLD" => MacdResult.confidence = RatZero

\* a BUY whose confidence is below the cap
C6_Witness ==
    /\ MacdComputed
    /\ MacdResult.signal = "BUY"
    /\ RatLT(RatZero, MacdResult.confidence)
    /\ RatLT(MacdResult.confidence, RatInt(100))

C6_WitnessSell == MacdComputed /\ MacdResult.signal = "SELL"

C6_WitnessHold ==
    MacdComputed /\ MacdResult.signal = "HOLD" /\ MacdHistogram = RatZero

InsufficientOutcome(out) ==
    /\ out[1] = <<>>
    /\ out[2].signal = "HOLD"
    /\ out[2].confidence = RatZero
    /\ Contains(out[2].description, "Insufficient data")

\* C7: an indicator returns the insufficient-data outcome (HOLD, confidence 0,
\* empty value series, a description containing 'Insufficient data') iff the
\* price array is shorter than its minimum: ema_period for calculate_ema,
\* rsi_period + 1 for calculate_rsi, macd_slow + macd_signal for calculate_macd.
C7_InsufficientData ==
    /\ EmaReturned =>
        /\ (Len(close_prices) < ti.ema_period) <=> InsufficientOutcome(ema_out[1])
        /\ (Len(close_prices) >= ti.ema_period) <=>
               ~Contains(EmaResult.description, "Insufficient data")
    /\ RsiReturned =>
        /\ (Len(close_prices) < ti.rsi_period + 1) <=> InsufficientOutcome(rsi_out[1])
        /\ (Len(close_prices) >= ti.rsi_period + 1) <=>
               ~Contains(RsiResult.description, "Insufficient data")
    /\ MacdReturned =>
        /\ (Len(close_prices) < ti.macd_slow + ti.macd_signal) <=>
               InsufficientOutcome(macd_out[1])
        /\ (Len(close_prices) >= ti.macd_slow + ti.macd_signal) <=>
               ~Contains(MacdResult.description, "Insufficient data")

\* four prices: enough for EMA(3) and RSI(2), one short of MACD(3 + 2)
C7_Witness ==
    /\ EmaReturned /\ MacdReturned /\ RsiReturned
    /\ Len(close_prices) = 4
    /\ ti.ema_period = 3 /\ ti.macd_slow + ti.macd_signal = 5 /\ ti.rsi_period = 2
    /\ ~InsufficientOutcome(ema_out[1])
    /\ InsufficientOutcome(macd_out[1])
    /\ MacdResult.description = "Insufficient data for MACD (4 < 5)"
    /\ ~InsufficientOutcome(rsi_out[1])

C7_WitnessEmpty ==
    /\ EmaReturned /\ MacdReturned /\ RsiReturned
    /\ close_prices = <<>>
    /\ InsufficientOutcome(ema_out[1])
    /\ InsufficientOutcome(macd_out[1])
    /\ InsufficientOutcome(rsi_out[1])

EmaComputed == EmaReturned /\ Len(close_prices) >= ti.ema_period

LastAverage == Last(ema_out[1][1])

LastPrice == Last(close_prices)

Deviation == RatMul(RatDiv(RatAbs(RatSub(LastPrice, LastAverage)), LastAverage), RatInt(100))

\* C14: on at least ema_period prices calculate_ema returns BUY when the last
\* price is above the last average, SELL when below, HOLD when equal, with
\* confidence min(100, |price - average| / average * 100) (0 for HOLD, within
\* [0,100]), value the last average and reference_value the last price.
C14_EmaRule ==
    EmaComputed =>
        /\ EmaResult.name = "EMA"
        /\ EmaResult.value = LastAverage
        /\ EmaResult.reference_value = LastPrice
        /\ RatLT(LastAverage, LastPrice) => EmaResult.signal = "BUY"
        /\ RatLT(LastPrice, LastAverage) => EmaResult.signal = "SELL"
        /\ LastPrice = LastAverage => EmaResult.signal = "HOLD"
        /\ EmaResult.confidence = RatMin(RatInt(100), Deviation)
        /\ EmaResult.signal = "HOLD" => EmaResult.confidence = RatZero
        /\ RatLE(RatZero, EmaResult.confidence)
        /\ RatLE(EmaResult.confidence, RatInt(100))

\* a BUY whose deviation is above 100 percent
C14_Witness ==
    /\ EmaComputed
    /\ EmaResult.signal = "BUY"
    /\ RatLT(RatInt(100), Deviation)
    /\ EmaResult.confidence = RatInt(100)

C14_WitnessSell ==
    /\ EmaComputed
    /\ EmaResult.signal = "SELL"
    /\ RatLT(RatZero, EmaResult.confidence)

C14_WitnessHold ==
    /\ EmaComputed
    /\ EmaResult.signal = "HOLD"
    /\ Len(close_prices) > ti.ema_period
    /\ \E i \in DOMAIN close_prices : close_prices[i] # LastPrice

RsiComputed == RsiReturned /\ Len(close_prices) >= ti.rsi_period + 1

LastRsi == Last(rsi_out[1][1])

BuyScale ==
    RatMul(RatDiv(RatSub(ti.rsi_oversold, LastRsi), ti.rsi_oversold), RatInt(100))

SellScale ==
    RatMul(RatDiv(RatSub(LastRsi, ti.rsi_overbought),
                  RatSub(RatInt(100), ti.rsi_overbought)), RatInt(100))

\* C15: on at least rsi_period + 1 prices calculate_rsi returns BUY exactly
\* when the last RSI is below the oversold threshold, SELL exactly when it is
\* above the overbought threshold, HOLD otherwise (at a threshold too); the
\* confidence is (oversold - rsi)/oversold*100 for BUY and
\* (rsi - overbought)/(100 - overbought)*100 for SELL, capped at 100: 0 at a
\* threshold, 100 at RSI 0 or 100, within [0,100] throughout.
C15_RsiRule ==
    RsiComputed =>
        /\ RsiResult.name = "RSI"
        /\ RsiResult.value = LastRsi
        /\ RatLE(RatZero, LastRsi) /\ RatLE(LastRsi, RatInt(100))
        /\ RsiResult.signal = "BUY" <=> RatLT(LastRsi, ti.rsi_oversold)
        /\ RsiResult.signal = "SELL" <=> RatLT(ti.rsi_overbought, LastRsi)
        /\ RsiResult.signal \in Signal
        /\ RsiResult.signal = "BUY" =>
               RsiResult.confidence = RatMin(BuyScale, RatInt(100))
        /\ RsiResult.signal = "SELL" =>
               RsiResult.confidence = RatMin(SellScale, RatInt(100))
        /\ RsiResult.signal = "HOLD" => RsiResult.confidence = RatZero
        /\ LastRsi \in {ti.rsi_oversold, ti.rsi_overbought} =>
               RsiResult.confidence = RatZero
        /\ LastRsi \in {RatZero, RatInt(100)} => RsiResult.confidence = RatInt(100)
        /\ RatLE(RatZero, RsiResult.confidence)
        /\ RatLE(RsiResult.confidence, RatInt(100))

\* the last RSI is exactly at the oversold threshold
C15_Witness ==
    /\ RsiComputed
    /\ LastRsi = ti.rsi_oversold
    /\ RsiResult.signal = "HOLD"

C15_WitnessOverbought ==
    /\ RsiComputed
    /\ LastRsi = ti.rsi_overbought
    /\ RsiResult.signal = "HOLD"

C15_WitnessBuy ==
    /\ RsiComputed
    /\ RsiResult.signal = "BUY"
    /\ RatLT(RatZero, LastRsi)
    /\ RatLT(RsiResult.confidence, RatInt(100))

C15_WitnessSell ==
    /\ RsiComputed
    /\ RsiResult.signal = "SELL"
    /\ RatLT(LastRsi, RatInt(100))
    /\ RatLT(RatZero, RsiResult.confidence)

AnalysisReturned == analysis_out # <<>>

Analysis == analysis_out[1]

TooShort == Len(close_prices) < ti.min_data_points

MinDataPoints ==
    Max2(ti.ema_period, Max2(ti.macd_slow + ti.macd_signal, ti.rsi_period)) + 10

IsInsufficientResult(ind) ==
    /\ ind.signal = "HOLD"
    /\ ind.confidence = RatZero
    /\ Contains(ind.description, "Insufficient data")

C16_WitnessLongEnough ==
    /\ AnalysisReturned
    /\ ~TooShort
    /\ Analysis.value # None

AnalysisResulted == AnalysisReturned /\ ~Analysis.raised /\ Analysis.value # None

PositivePeriodsOf(self) ==
    /\ self.ema_period > 0
    /\ self.macd_fast > 0
    /\ self.macd_slow > 0
    /\ self.macd_signal > 0
    /\ self.rsi_period > 0

\* C29: whenever analyze_symbol returns a result, for every parameter set
\* with positive periods, the result holds exactly three indicator results in
\* the order EMA, MACD, RSI, none of them is an insufficient-data outcome
\* (min_data_points is at least the minimum length of each indicator's own
\* length guard), and the overall signal, confidence and recommendation equal
\* _combine_signals applied to those three results.
C29_ThreeIndicatorsCombined ==
    AnalysisResulted /\ PositivePeriodsOf(ti) =>
        /\ Len(close_prices) >= ti.min_data_points
        /\ [i \in DOMAIN Analysis.value.indicators |-> Analysis.value.indicators[i].name]
               = <<"EMA", "MACD", "RSI">>
        /\ \A i \in DOMAIN Analysis.value.indicators :
               ~IsInsufficientResult(Analysis.value.indicators[i])
        /\ ~EmaInsufficient(ti, close_prices)
        /\ ~MacdInsufficient(ti, close_prices)
        /\ ~RsiInsufficient(ti, close_prices)
        /\ ti.min_data_points >= ti.ema_period
        /\ ti.min_data_points >= ti.macd_slow + ti.macd_signal
        /\ ti.min_data_points >= ti.rsi_period + 1
        /\ Analysis.value.overall_signal
               = _combine_signals(Analysis.value.indicators).signal
        /\ Analysis.value.overall_confidence
               = _combine_signals(Analysis.value.indicators).confidence
        /\ Analysis.value.recommendation
               = _combine_signals(Analysis.value.indicators).recommendation

\* a result on a series of exactly min_data_points closes whose indicators
\* disagree
C29_Witness ==
    /\ AnalysisResulted
    /\ Len(close_prices) = ti.min_data_points
    /\ \E i, j \in DOMAIN Analysis.value.indicators :
           Analysis.value.indicators[i].signal # Analysis.value.indicators[j].signal

\* a period of 1 on a series long enough: no result is returned
C29_WitnessRejected ==
    /\ AnalysisReturned
    /\ ~TooShort
    /\ ti.ema_period = 1
    /\ Analysis.raised

ScenarioBars == 40

\* the default parameters on ScenarioBars closes all equal to 100.0
FlatScenario ==
    /\ ti = DefaultTechnicalIndicators
    /\ close_prices = FlatSeries(ScenarioBars, RatInt(100))

HoldWithZeroConfidence(ind) == ind.signal = "HOLD" /\ ind.confidence = RatZero

\* C17: on 40 closes all equal to 100.0 with the default parameters the EMA
\* indicator is HOLD with confidence 0, the RSI indicator is HOLD with
\* confidence 0 and value 50, the MACD indicator is HOLD with confidence 0, and
\* the combiner returns HOLD, 0.0, 'No clear signals from indicators' on them.
C17_FlatScenario ==
    FlatScenario =>
        /\ EmaReturned => HoldWithZeroConfidence(EmaResult)
        /\ MacdReturned => HoldWithZeroConfidence(MacdResult)
        /\ RsiReturned =>
               HoldWithZeroConfidence(RsiResult) /\ RsiResult.value = RatInt(50)
        /\ EmaReturned /\ MacdReturned /\ RsiReturned =>
               _combine_signals(<<EmaResult, MacdResult, RsiResult>>)
                   = [signal |-> "HOLD", confidence |-> RatZero,
                      recommendation |-> "No clear signals from indicators"]

(***************************************************************************)
(* Properties of the semantic pipeline.                                    *)
(***************************************************************************)
SemanticReturned == semantic_out # <<>>

SemanticRows == semantic_out[1].rows

\* the rows of news_df and the flat list of their sentiment results
FetchedNews == get_benzinga_news(symbols, news).rows

FetchedSentiments ==
    analyze_sentiment_batch([i \in DOMAIN FetchedNews |-> FetchedNews[i].text],
                            DefaultBatchSize)

\* the sentiment results of the documents whose originating symbol is sym,
\* in document order
RECURSIVE ResultsOfSymbol(_, _)
ResultsOfSymbol(sym, i) ==
    IF i > Len(FetchedNews) THEN <<>>
    ELSE (IF FetchedNews[i].symbol = sym THEN <<FetchedSentiments[i]>> ELSE <<>>)
         \o ResultsOfSymbol(sym, i + 1)

\* the positions of the flat result list that line 299 takes for symbols[j]
SliceTaken(j) ==
    LET count == Len(SymbolNews(FetchedNews, symbols[j]))
    IN  {i \in DOMAIN FetchedSentiments : (j - 1) * count < i /\ i <= j * count}

\* C10: on a batch of several symbols, the aggregate reported for each symbol
\* is computed from exactly the sentiment results of the documents of that
\* symbol, so the number of results aggregated equals its news_count.
C10_GroupedBySymbol ==
    (SemanticReturned /\ SemanticRows # <<>>) =>
        \A j \in DOMAIN symbols :
            SemanticRows[j].news_count > 0 =>
                /\ SemanticRows[j] =
                       [symbol |-> symbols[j],
                        news_count |-> Len(ResultsOfSymbol(symbols[j], 1)),
                        analysis_date |-> AnalysisDate]
                       @@ calculate_sentiment_scores(ResultsOfSymbol(symbols[j], 1))
                /\ SliceTaken(j) = {i \in DOMAIN FetchedNews :
                                        FetchedNews[i].symbol = symbols[j]}
                /\ Cardinality(SliceTaken(j)) = SemanticRows[j].news_count


(***************************************************************************)
(* Properties of the verdict.                                              *)
(***************************************************************************)
VerdictReturned == verdict # <<>>

Response == verdict[1]

Narrative == Response.aiInsight

\* the summaries of the requested symbol that format_for_frontend was given
TechData ==
    WithDefault(technical_results.results, symbols[1], DefaultTechnicalData)[symbols[1]]

SemData ==
    WithDefault(semantic_results.results, symbols[1], DefaultSemanticData)[symbols[1]]

NarratorFailed == narrator.status \in {"none", "error"}

NarrativePopulated == Narrative # ""

\* C9: whenever the narrative generator is unavailable or fails, the narrative
\* is the templated sentence built from the symbol and the two summaries, and
\* for every outcome of the generator (text, empty text, whitespace-only text,
\* failure) the returned narrative is not empty.
C9_NarrativeNeverEmpty ==
    VerdictReturned =>
        /\ NarratorFailed => Narrative = FallbackInsight(symbols[1], TechData, SemData)
        /\ NarrativePopulated

SentimentWord(narrative) ==
    IF Contains(narrative, "with positive market sentiment") THEN "positive"
    ELSE IF Contains(narrative, "with negative market sentiment") THEN "negative"
    ELSE IF Contains(narrative, "with neutral market sentiment") THEN "neutral"
    ELSE ""

LowerLabel(label) ==
    IF label = "Positive" THEN "positive"
    ELSE IF label = "Negative" THEN "negative"
    ELSE IF label = "Neutral" THEN "neutral"
    ELSE label

\* C30: in every verdict whose narrative is the templated fallback, the
\* sentiment word of the narrative is 'positive', 'negative' or 'neutral'
\* exactly when the verdict's sentiment label is 'Positive', 'Negative' or
\* 'Neutral' respectively, for every value of weighted_sentiment_avg.
C30_NarrativeAgreesWithLabel ==
    VerdictReturned /\ NarratorFailed =>
        SentimentWord(Narrative) = LowerLabel(Response.semanticAnalysis.sentiment)

PricePopulated ==
    /\ Response.stock.symbol = symbols[1]
    /\ ~IsNaN(Response.stock.price)
    /\ RatLT(RatZero, Response.stock.price)

TechnicalSummaryPopulated ==
    /\ Response.technicalAnalysis.trend \in {"Bullish", "Bearish", "Neutral"}
    /\ Response.technicalAnalysis.macd \in {"Buy Signal", "Sell Signal", "Neutral"}
    /\ ~IsNaN(Response.technicalAnalysis.rsi)
    /\ ~IsNaN(Response.technicalAnalysis.support)
    /\ ~IsNaN(Response.technicalAnalysis.resistance)

SemanticSummaryPopulated ==
    /\ Response.semanticAnalysis.sentiment \in {"Positive", "Negative", "Neutral"}
    /\ RatLE(RatZero, Response.semanticAnalysis.newsScore)
    /\ RatLE(Response.semanticAnalysis.newsScore, RatInt(10))
    /\ Response.semanticAnalysis.socialMediaBuzz \in {"High", "Medium", "Low"}
    /\ Response.semanticAnalysis.analystRating
           \in {"Strong Buy", "Buy", "Hold", "Sell", "Strong Sell"}

\* a record of run_technical_analysis or run_semantic_analysis that reports a
\* failure: a non-null error and empty results
FailureRecord(record) == record.error # None /\ record.results = EmptyDict

WellFormedRecord(record) ==
    /\ DOMAIN record = {"error", "results"}
    /\ record.error # None => record.results = EmptyDict

PriceSourceFailed == price_source.status \in {"empty", "error"}

NewsSourceFailed ==
    \/ news[symbols[1]].status \in {"error", "list"}
    \/ news[symbols[1]].articles = <<>>

\* C8: for every combination of outcomes of the price source, the news
\* source, the classifier and the narrative generator, get_complete_verdict
\* returns a verdict whose price, technical summary, semantic summary and
\* narrative are all populated, and run_technical_analysis and
\* run_semantic_analysis turn a failure into a record with a non-null error and
\* empty results.
C8_CompleteVerdict ==
    /\ technical_results # None =>
           /\ WellFormedRecord(technical_results)
           /\ PriceSourceFailed => FailureRecord(technical_results)
    /\ semantic_results # None =>
           /\ WellFormedRecord(semantic_results)
           /\ NewsSourceFailed => FailureRecord(semantic_results)
    /\ VerdictReturned =>
           /\ PricePopulated
           /\ TechnicalSummaryPopulated
           /\ SemanticSummaryPopulated
           /\ NarrativePopulated


(***************************************************************************)
(* Properties of the aggregation.                                          *)
(***************************************************************************)
ScoresReturned == scores_out # <<>>

Scores == scores_out[1]

Labels == {"positive", "negative", "neutral"}

Labelled(docs, label) == {i \in DOMAIN docs : docs[i].sentiment = label}

RatioOf(aggregate, label) == aggregate[label \o "_ratio"]

InUnitInterval(x) == RatLE(RatZero, x) /\ RatLE(x, RatInt(1))

SameLabels(a, b) ==
    Len(a) = Len(b) /\ \A i \in DOMAIN a : a[i].sentiment = b[i].sentiment

ScoresSumToOne(doc) ==
    RatAdd(RatAdd(doc.positive_score, doc.negative_score), doc.neutral_score) = RatInt(1)

\* C11: on a non-empty list each of the three ratios is the number of documents
\* with that label over the total, lies in [0,1], the three sum to 1, and any
\* list with the same labels (whatever its class scores) has the same ratios.
C11_RatiosFromLabels ==
    ScoresReturned /\ documents # <<>> =>
        /\ \A label \in Labels :
              /\ RatMul(RatioOf(Scores, label), RatInt(Len(documents)))
                     = RatInt(Cardinality(Labelled(documents, label)))
              /\ InUnitInterval(RatioOf(Scores, label))
        /\ RatAdd(RatAdd(Scores.positive_ratio, Scores.negative_ratio),
                  Scores.neutral_ratio) = RatInt(1)
        /\ \A other \in SeqsUpTo(TestDocuments, MaxDocuments) :
              SameLabels(other, documents) =>
                  \A label \in Labels :
                      RatioOf(calculate_sentiment_scores(other), label)
                          = RatioOf(Scores, label)

C11_Witness ==
    /\ ScoresReturned
    /\ Len(documents) = 3
    /\ \A label \in Labels : Labelled(documents, label) # {}
    /\ \E i \in DOMAIN documents : ~ScoresSumToOne(documents[i])
    /\ Scores.positive_ratio = Rat(1, 3)

AggregateFields ==
    {"overall_sentiment", "weighted_sentiment_avg", "positive_ratio",
     "negative_ratio", "neutral_ratio", "average_confidence",
     "sentiment_momentum_squared", "avg_positive_score", "avg_negative_score",
     "avg_neutral_score"}

EmptyScored == ScoresReturned /\ documents = <<>>

\* C12: on an empty list the call returns an aggregate with neutral_ratio = 1.0
\* and every other field 0.0.
C12_EmptyNeutralOne ==
    EmptyScored =>
        /\ DOMAIN Scores = AggregateFields
        /\ Scores.neutral_ratio = RatInt(1)
        /\ \A f \in AggregateFields \ {"neutral_ratio"} : Scores[f] = RatZero

\* C12 as amended: on an empty list the call returns an aggregate in which
\* every field, neutral_ratio included, is 0.0.
C12_EmptyAllZero ==
    EmptyScored =>
        /\ DOMAIN Scores = AggregateFields
        /\ \A f \in AggregateFields : Scores[f] = RatZero

C12_Witness == EmptyScored /\ Scores.neutral_ratio = RatZero

Permuted(docs, p) == [i \in DOMAIN docs |-> docs[p[i]]]

CleanReturned == cleaned_out # <<>>

Cleaned == cleaned_out[1]

\* C18: in the returned frame every row has sentiment_signal 1 exactly when
\* its own weighted_sentiment_avg is above 0.1, -1 exactly when it is below
\* -0.1, and 0 in every other case, the values 0.1 and -0.1 included.
C18_SignalThresholds ==
    CleanReturned =>
        \A i \in DOMAIN Cleaned :
            LET row == Cleaned[i]
                above == RatLT(Rat(1, 10), row.weighted_sentiment_avg)
                below == RatLT(row.weighted_sentiment_avg, Rat(-1, 10))
            IN  /\ row.sentiment_signal \in {-1, 0, 1}
                /\ row.sentiment_signal = 1 <=> above
                /\ row.sentiment_signal = -1 <=> below
                /\ row.weighted_sentiment_avg \in {Rat(1, 10), Rat(-1, 10)}
                       => row.sentiment_signal = 0

C18_Witness ==
    /\ CleanReturned
    /\ Len(Cleaned) = 2
    /\ Cleaned[1].weighted_sentiment_avg = Rat(1, 10) /\ Cleaned[1].sentiment_signal = 0
    /\ Cleaned[2].weighted_sentiment_avg = Rat(3, 20) /\ Cleaned[2].sentiment_signal = 1

C18_WitnessNegative ==
    /\ CleanReturned
    /\ Len(Cleaned) = 2
    /\ Cleaned[1].weighted_sentiment_avg = Rat(-1, 10) /\ Cleaned[1].sentiment_signal = 0
    /\ Cleaned[2].weighted_sentiment_avg = Rat(-3, 20) /\ Cleaned[2].sentiment_signal = -1

\* the average_confidence cells of the frame that hold a number
Confidences(frame) ==
    {frame[i].average_confidence : i \in DOMAIN frame} \ {NaN}

IsBatchMaximum(top, frame) ==
    top \in Confidences(frame) /\ \A c \in Confidences(frame) : RatLE(c, top)

\* C19: when the largest average_confidence of the batch is above 0, every
\* row's confidence_normalized is its average_confidence divided by it, which
\* is 1 for a row holding the largest value and within [0, 1] for a row of
\* non-negative confidence; when the largest is 0 every row holds 0.0.
C19_ConfidenceNormalized ==
    CleanReturned =>
        \A top \in Confidences(Cleaned) :
            IsBatchMaximum(top, Cleaned) =>
                \A i \in DOMAIN Cleaned :
                    LET row == Cleaned[i]
                    IN  /\ RatLT(RatZero, top) =>
                              /\ row.confidence_normalized
                                     = RatDiv(row.average_confidence, top)
                              /\ row.average_confidence = top
                                     => row.confidence_normalized = RatInt(1)
                              /\ RatLE(RatZero, row.average_confidence)
                                 /\ ~IsNaN(row.average_confidence)
                                     => /\ RatLE(RatZero, row.confidence_normalized)
                                        /\ RatLE(row.confidence_normalized, RatInt(1))
                        /\ top = RatZero => row.confidence_normalized = RatZero

C19_Witness ==
    /\ CleanReturned
    /\ Len(Cleaned) = 2
    /\ Cleaned[1].average_confidence = Rat(4, 5)
    /\ Cleaned[1].confidence_normalized = RatInt(1)
    /\ Cleaned[2].average_confidence = Rat(2, 5)
    /\ Cleaned[2].confidence_normalized = Rat(1, 2)

C19_WitnessZeroMaximum ==
    /\ CleanReturned
    /\ Len(Cleaned) = 2
    /\ Cleaned[1].symbol = "MSFT" /\ Cleaned[2].symbol = "GOOGL"
    /\ \A i \in DOMAIN Cleaned :
          /\ Cleaned[i].average_confidence = RatZero
          /\ Cleaned[i].confidence_normalized = RatZero

DerivedColumns == {"sentiment_signal", "confidence_normalized"}

\* C20: the call returns for a frame holding any part of the required
\* columns: every required column the frame lacks comes back holding 0.0,
\* every column it holds comes back as it was, and the rows of a frame
\* lacking weighted_sentiment_avg and average_confidence get sentiment_signal
\* 0 and confidence_normalized 0.0.
C20_PartialInput ==
    [][cleaned_out' # cleaned_out =>
          /\ cleaned_out' # <<>>
          /\ DOMAIN cleaned_out'[1] = DOMAIN semantic_df
          /\ \A i \in DOMAIN semantic_df :
                LET given == semantic_df[i]
                    row == cleaned_out'[1][i]
                IN  /\ DOMAIN row = DOMAIN given \cup RequiredColumns \cup DerivedColumns
                    /\ \A c \in RequiredColumns \ DOMAIN given : row[c] = RatZero
                    /\ \A c \in DOMAIN given : row[c] = given[c]
                    /\ {"weighted_sentiment_avg", "average_confidence"} \cap DOMAIN given = {}
                           => /\ row.sentiment_signal = 0
                              /\ row.confidence_normalized = RatZero]_vars

\* the frame of test_clean_data_for_downstream_missing_columns, cleaned
C20_Witness ==
    /\ CleanReturned
    /\ Len(Cleaned) = 1
    /\ Cleaned[1].symbol = "AAPL"
    /\ \A c \in RequiredColumns \ {"symbol"} : Cleaned[1][c] = RatZero
    /\ Cleaned[1].sentiment_signal = 0
    /\ Cleaned[1].confidence_normalized = RatZero

C20_WitnessKept ==
    /\ CleanReturned
    /\ Cleaned[1].symbol = "AAPL"
    /\ Cleaned[1].overall_sentiment = Rat(1, 2)
    /\ Cleaned[1].positive_ratio = Rat(3, 5)
    /\ Cleaned[1].weighted_sentiment_avg = RatZero
    /\ Cleaned[1].average_confidence = RatZero
    /\ Cleaned[1].sentiment_signal = 0
    /\ Cleaned[1].confidence_normalized = RatZero

(***************************************************************************)
(* Further properties of the verdict.                                      *)
(***************************************************************************)
Rating == Response.semanticAnalysis.analystRating

OverallSignal == TechData.overall_signal

OverallConfidence == TechData.overall_confidence

AboveSeventy == RatLT(RatInt(70), OverallConfidence)

\* C21: the analyst rating of a returned verdict is fixed by the overall
\* signal and overall confidence of the technical record: "Strong Buy"
\* exactly for BUY above 70, "Buy" exactly for BUY at 70 or below, "Strong
\* Sell" exactly for SELL above 70, "Sell" exactly for SELL at 70 or below,
\* "Hold" for every other signal; a confidence of 70 gives no "Strong" tier.
C21_AnalystRating ==
    VerdictReturned =>
        /\ Rating = "Strong Buy" <=> OverallSignal = "BUY" /\ AboveSeventy
        /\ Rating = "Buy" <=> OverallSignal = "BUY" /\ ~AboveSeventy
        /\ Rating = "Strong Sell" <=> OverallSignal = "SELL" /\ AboveSeventy
        /\ Rating = "Sell" <=> OverallSignal = "SELL" /\ ~AboveSeventy
        /\ Rating = "Hold" <=> OverallSignal \notin {"BUY", "SELL"}
        /\ OverallConfidence = RatInt(70) => Rating \notin {"Strong Buy", "Strong Sell"}

C21_Witness ==
    /\ VerdictReturned
    /\ OverallSignal = "BUY"
    /\ OverallConfidence = RatInt(70)
    /\ Rating = "Buy"

C21_WitnessStrongSell ==
    /\ VerdictReturned
    /\ OverallSignal = "SELL"
    /\ OverallConfidence = RatInt(80)
    /\ Rating = "Strong Sell"

C21_WitnessSellAtSeventy ==
    /\ VerdictReturned
    /\ OverallSignal = "SELL"
    /\ OverallConfidence = RatInt(70)
    /\ Rating = "Sell"

\* get_complete_verdict found no technical / no semantic result for the symbol
TechnicalDefaulted == ~HasEntry(technical_results.results, symbols[1])

SemanticDefaulted == ~HasEntry(semantic_results.results, symbols[1])

\* C22: when an analysis has no result for the requested symbol, the record
\* substituted for it is the neutral default: the technical one has overall
\* signal HOLD, every indicator HOLD and overall confidence 0, the sentiment
\* one has weighted_sentiment_avg 0 and average confidence 0, and the verdict
\* shows trend "Neutral", rating "Hold", MACD "Neutral" and sentiment "Neutral".
C22_NeutralDefaults ==
    VerdictReturned =>
        /\ TechnicalDefaulted =>
              /\ TechData.overall_signal = "HOLD"
              /\ \A i \in DOMAIN TechData.indicators : TechData.indicators[i].signal = "HOLD"
              /\ TechData.overall_confidence = RatZero
              /\ Response.technicalAnalysis.trend = "Neutral"
              /\ Response.technicalAnalysis.macd = "Neutral"
              /\ Rating = "Hold"
        /\ SemanticDefaulted =>
              /\ SemData.weighted_sentiment_avg = RatZero
              /\ SemData.average_confidence = RatZero
              /\ Response.semanticAnalysis.sentiment = "Neutral"

(***************************************************************************)
(* Properties of the construction of the indicator evaluator.              *)
(***************************************************************************)
Constructed == ctor_out # <<>>

\* a lookback period that is zero or negative
InvalidPeriods(args) ==
    \E k \in {"ema_period", "macd_fast", "macd_slow", "macd_signal", "rsi_period"} :
        args[k] <= 0

\* C23: constructing the evaluator with a zero or negative lookback period
\* raises at construction.
C23_InvalidParametersRaise ==
    Constructed /\ InvalidPeriods(ctor_args) => ctor_out[1].raised

(***************************************************************************)
(* Properties of analyze_sentiment_batch.                                  *)
(***************************************************************************)
BatchReturned == batch_out # <<>>

BatchOutput == batch_out[1]

\* the positions of the texts classified in the same batch as text i
BatchOf(i) == {j \in DOMAIN all_texts : (j - 1) \div chunk_size = (i - 1) \div chunk_size}

BatchFailed(i) == \E j \in BatchOf(i) : all_texts[j].raises

\* C24: the call returns one result per text, in the order of the texts:
\* the classification of text i when no call of the batch holding text i
\* raised, the neutral result when one did, whatever happened in the other
\* batches.
C24_OneResultPerText ==
    BatchReturned =>
        /\ Len(BatchOutput) = Len(all_texts)
        /\ \A i \in DOMAIN all_texts :
              BatchOutput[i] = IF BatchFailed(i) THEN NeutralResult
                               ELSE ClassifyResponse(all_texts[i].response)

\* a failed batch next to a batch that was classified
C24_Witness ==
    /\ BatchReturned
    /\ Len(all_texts) = 4
    /\ chunk_size = 2
    /\ all_texts[1] = PositiveText /\ all_texts[2] = FailingText
    /\ all_texts[3] = NegativeText /\ all_texts[4] = PositiveText
    /\ BatchOutput[1] = NeutralResult
    /\ BatchOutput[3].sentiment = "negative"
    /\ BatchOutput[4].sentiment = "positive"

NeverFails == \A i \in DOMAIN all_texts : ~all_texts[i].raises

\* C25: when no call of the classifier raises, the list returned, and so the
\* aggregate computed from it, is the one returned for every batch size from 1
\* on.
C25_ChunkingIndependent ==
    BatchReturned /\ NeverFails =>
        \A size \in 1..(MaxTexts + 1) :
            /\ analyze_sentiment_batch(all_texts, size) = BatchOutput
            /\ calculate_sentiment_scores(analyze_sentiment_batch(all_texts, size))
                   = calculate_sentiment_scores(BatchOutput)

C25_Witness ==
    /\ BatchReturned
    /\ NeverFails
    /\ Len(all_texts) = 3
    /\ chunk_size = 2
    /\ all_texts[1] = PositiveText /\ all_texts[2] = NegativeText
    /\ all_texts[3] = EmptyResponseText
    /\ BatchOutput[3] = NeutralResult

(***************************************************************************)
(* Properties of _clean_historical_data.                                   *)
(***************************************************************************)
HistoryReturned == history_out # <<>>

CleanedHistory == history_out[1]

BarColumns == {"symbol", "datetime", "open", "high", "low", "close", "volume"}

\* the row of the frame handed in that an output row comes from
AsGiven(row) == [c \in BarColumns |-> row[c]]

Occurrences(rows, row) == Cardinality({i \in DOMAIN rows : rows[i] = row})

WithinLimits(row) ==
    /\ row.open[1] > 0 /\ row.high[1] > 0 /\ row.low[1] > 0 /\ row.close[1] > 0
    /\ row.volume[1] >= 0
    /\ row.high[1] * row.low[2] >= row.low[1] * row.high[2]

\* C27: every row returned has open, high, low and close above 0, volume at
\* least 0 and high at least low; a row handed in is missing from the output
\* exactly when it breaks one of these limits; the rows returned are ordered
\* by symbol and, within a symbol, by ascending datetime.
C27_CleanedRows ==
    HistoryReturned =>
        /\ \A i \in DOMAIN CleanedHistory : WithinLimits(CleanedHistory[i])
        /\ \A row \in TestHistoryRows :
              Occurrences([i \in DOMAIN CleanedHistory |-> AsGiven(CleanedHistory[i])], row)
                  = IF WithinLimits(row) THEN Occurrences(historical_df, row) ELSE 0
        /\ \A i, j \in DOMAIN CleanedHistory :
              i < j =>
                  \/ SymbolRank(CleanedHistory[i].symbol) < SymbolRank(CleanedHistory[j].symbol)
                  \/ /\ CleanedHistory[i].symbol = CleanedHistory[j].symbol
                     /\ CleanedHistory[i].datetime <= CleanedHistory[j].datetime

\* two valid rows handed in out of order come back in order
C27_Witness ==
    /\ HistoryReturned
    /\ Len(historical_df) = 2
    /\ historical_df[1].symbol = "MSFT" /\ historical_df[2].symbol = "AAPL"
    /\ historical_df[1].volume = RatZero
    /\ Len(CleanedHistory) = 2
    /\ CleanedHistory[1].symbol = "AAPL" /\ CleanedHistory[2].symbol = "MSFT"

\* a row breaking a limit is dropped, the other is kept
C27_WitnessDropped ==
    /\ HistoryReturned
    /\ Len(historical_df) = 2
    /\ historical_df[1].volume = RatInt(-5)
    /\ Len(CleanedHistory) = 1
    /\ AsGiven(CleanedHistory[1]) = historical_df[2]

(***************************************************************************)
(* Properties of get_historical_data.                                      *)
(***************************************************************************)
FetchReturned == fetcher.pc = "done"

FetchedTable == fetcher.out[1]

Gets(calls) == SelectSeq(calls, LAMBDA call : call[1] = "get")

\* a pause between every two consecutive fetches and nowhere else
PausedBetweenFetches(calls) ==
    /\ \A k \in DOMAIN calls :
          calls[k][1] = "get" /\ k < Len(calls) => calls[k + 1] = <<"sleep">>
    /\ \A k \in DOMAIN calls :
          calls[k] = <<"sleep">> => k > 1 /\ k < Len(calls) /\ calls[k - 1][1] = "get"
                                          /\ calls[k + 1][1] = "get"

ReturnedData(sym) == fetcher.source[sym].status = "data"

\* C28: the call returns whatever the fetches do: every symbol of the list is
\* fetched, in order, also after a failed fetch; the table returned holds
\* rows for exactly the symbols whose fetch returned data and is empty when
\* none did; and there is a pause between every two consecutive fetches,
\* also after a failed one, and none after the last.
C28_FetchFailuresTolerated ==
    FetchReturned =>
        /\ Gets(fetcher.calls) = [i \in DOMAIN fetcher.symbols |-> <<"get", fetcher.symbols[i]>>]
        /\ {FetchedTable[i].symbol : i \in DOMAIN FetchedTable}
               = {fetcher.symbols[i] : i \in {k \in DOMAIN fetcher.symbols :
                                                   ReturnedData(fetcher.symbols[k])}}
        /\ PausedBetweenFetches(fetcher.calls)

(***************************************************************************)
(* Properties of verdict requests on one AIVerdictSystem.                  *)
(***************************************************************************)
\* the verdict of the program run in its written order: the technical
\* analysis, then the semantic analysis, then the formatting
InOrderVerdict(request) ==
    get_complete_verdict(DefaultTechnicalIndicators, RequestSymbol,
                         request.price_source, NewsOf(request.news),
                         request.narrator)

CurrentRequest ==
    [price_source |-> price_source, news |-> news[RequestSymbol],
     narrator |-> narrator]

\* C26: within one verdict request the technical and the semantic analysis
\* share no mutable state: however their steps interleave, the verdict is
\* the one of the two analyses run one after the other; and no state written
\* by one request is read by a later one: every verdict returned is the one
\* determined by its own request's collaborator responses, so two requests
\* with the same responses get the same verdict.
C26_AnalysesIndependent ==
    /\ verdict_pc = "returned" => verdict[1] = InOrderVerdict(CurrentRequest)
    /\ \A i \in DOMAIN responses :
           responses[i].verdict = InOrderVerdict(responses[i].request)
    /\ \A i, j \in DOMAIN responses :
           responses[i].request = responses[j].request
               => responses[i].verdict = responses[j].verdict

\* a second request whose collaborators answer differently from the first
\* request's has its own verdict, which differs from the first one
C26_Witness ==
    /\ Len(responses) = 1
    /\ verdict_pc = "returned"
    /\ CurrentRequest # responses[1].request
    /\ verdict[1] # responses[1].verdict
    /\ verdict[1].aiInsight = "Outlook is stable."

\* the steps of the two analyses alternate: the news is fetched while the
\* history is fetched and not yet analysed
C26_WitnessInterleaved ==
    /\ verdict_pc = "start"
    /\ historical_data # None
    /\ fetched_news # None

\* two requests with the same responses got the same verdict
C26_WitnessRepeated ==
    /\ Len(responses) = 2
    /\ responses[1].request = responses[2].request
    /\ responses[1].verdict = responses[2].verdict

====
